---- MODULE Spec2Model ----
(***************************************************************************)
(* State-machine model of the music playback subsystem of                  *)
(* src/cogs/music_cog.py: the process-wide CacheManager, the download      *)
(* tasks, the per-guild MusicPlayer (queue, current track, voice client,   *)
(* queue_lock, play_next, cleanup, the voice-channel watchers) and the     *)
(* MusicCog request handlers.                                              *)
(*                                                                         *)
(* Scheduling follows asyncio: one task runs at a time and keeps running   *)
(* until it reaches an await that really suspends.  The variable `running` *)
(* names the task that is in the middle of such a run; every other action  *)
(* waits until it is NoTask again.  Acquiring a free asyncio.Lock and      *)
(* awaiting a coroutine that does not suspend are not suspension points.   *)
(*                                                                         *)
(* The model takes a MusicPlayer as the assignments of __init__ leave it   *)
(* (start_tasks, line 998, refers to a periodic_cleanup the class does not *)
(* define), and the discord.py voice client as its documentation has it.   *)
(***************************************************************************)
EXTENDS Integers, Sequences, FiniteSets, TLC

Guilds == {1, 2}
Songs == {"A", "B", "C"}
SongOrder == <<"A", "B", "C">>

\* Number of outside events of one run: the commands of the users (play, select, stop,
\* skip, shuffle, loop, volume) and a user leaving the voice channel.
MaxCmd == 3
\* Number of cleanup intervals of one run.
MaxUptime == 2
\* CacheManager.max_cache_size, scaled down from 100 so that a full cache is reachable.
MaxCacheSize == 2
\* MAX_RETRIES: download attempts of YTDLSource.download_song.
MAX_RETRIES == 3
MAX_RECONNECT == 3
\* DEFAULT_VOLUME = 0.05.  Volumes are counted in hundredths, the unit of the level of
\* the volume command (volume = level / 100, line 1970).
DEFAULT_VOLUME == 5
\* level: app_commands.Range[int, 1, 200], line 1958.
MinLevel == 1
MaxLevel == 200
\* The levels users ask for: below the range, its two ends, above it.
Levels == {0, MinLevel, MaxLevel, 250}

VARIABLES
    cache,       \* CacheManager.cache: song_id -> SongData (a function on the ids present)
    order,       \* insertion order of the keys of CacheManager.cache (dict order)
    cacheLock,   \* CacheManager.lock is held (only ever by a task that then waits for it for good)
    files,       \* audio files on disk, <<guild directory, song_id>>
    inflight,    \* song_id -> number of download tasks that have been created and not ended
    evicted,     \* what CacheManager.set / cleanup_expired removed: <<song_id, is_downloading>>
    asked,       \* number of distinct songs requested so far
    cmds,        \* number of outside events so far
    registered,  \* guild -> guild.id in MusicCog.players
    queue,       \* guild -> MusicPlayer.queue (song ids)
    current,     \* guild -> MusicPlayer.current: <<>> or <<song_id, file_path>>
    loop,        \* guild -> MusicPlayer.loop
    volume,      \* guild -> MusicPlayer._volume, in hundredths
    vc,          \* guild -> MusicPlayer.voice_client: "none", or the client is "idle"/"playing"
    embed,       \* guild -> MusicPlayer.embed_message is set
    holder,      \* guild -> task that holds MusicPlayer.queue_lock
    waiters,     \* guild -> tasks waiting for queue_lock, first come first served
    pn,          \* guild -> the play_next call that is inside queue_lock
    cbPending,   \* guild -> handle_playback_finished calls scheduled and not yet started
    req,         \* request -> the handler of a play command or of a search-result button
    running,     \* the task that is running between two suspension points
    humans,      \* guild -> a user is in the voice channel the bot is in (or is asked to join)
    views,       \* guild -> a SearchResultsView is open
    watch,       \* guild -> the check_voice_channel tasks that are alive
    cl,          \* guild -> the MusicPlayer.cleanup call in progress
    error_count, \* guild -> MusicPlayer.error_count
    uptime,      \* number of CACHE_CLEANUP_INTERVALs the periodic_cleanup task has slept through
    said,        \* the last shuffle, loop or volume command and its answer:
                 \* <<number of the event, guild, text, level asked for>>
    shown,       \* guild -> number of now-playing messages that exist in the channel
    unloaded,    \* MusicCog.cog_unload has been called
    attempts,    \* guild -> channel.connect calls of handle_disconnect since the last drop
    hd,          \* guild -> watcher -> the attempt handle_disconnect is in (0: not in it)
    conns,       \* guild -> voice clients the guild has (discord.py's guild.voice_client)
    invoker,     \* the last command of a user who is not in the bot's voice channel:
                 \* <<number of the event, guild, voice state of the user>>
    fetch,       \* song_id -> the YTDLSource.download_song call for it, attempt by attempt
    poll,        \* the PollView of one poll, its data file and the cog's active_polls
    tts,         \* the TTS queue of one guild and the worker that speaks it
    modr         \* the moderation data files of one guild and the on_message handlers

cacheVars == <<cache, order, cacheLock, files, inflight, evicted>>
playerVars == <<registered, queue, current, loop, volume, vc, embed, shown>>
lockVars == <<holder, waiters, pn>>
envVars == <<humans, views, asked, cmds>>
vars == <<cache, order, cacheLock, files, inflight, evicted, asked, cmds, registered, queue,
          current, loop, volume, vc, embed, holder, waiters, pn, cbPending, req, running,
          humans, views, watch, cl, error_count, uptime, said, shown, unloaded, attempts,
          hd, conns, invoker, fetch, poll, tts, modr>>
\* The state of the other cogs and of the attempt-by-attempt download.
cogVars == <<fetch, poll, tts, modr>>
musicVars == <<cache, order, cacheLock, files, inflight, evicted, asked, cmds, registered,
               queue, current, loop, volume, vc, embed, holder, waiters, pn, cbPending, req,
               running, humans, views, watch, cl, error_count, uptime, said, shown, unloaded,
               attempts, hd, conns, invoker>>

Requests == 1..MaxCmd
NoTask == <<"none", 0>>
ReqTask(r) == <<"req", r>>
CbTask(g) == <<"cb", g>>
NoSong == "none"

Range(q) == {q[i] : i \in 1..Len(q)}
InSeq(x, q) == x \in Range(q)

\* deque.remove(x): removes the first occurrence.
RECURSIVE RemoveFirst(_, _)
RemoveFirst(q, x) ==
    IF q = <<>> THEN <<>>
    ELSE IF Head(q) = x THEN Tail(q)
    ELSE <<Head(q)>> \o RemoveFirst(Tail(q), x)

IdlePn == [pc |-> "idle", owner |-> NoTask, song |-> NoSong, res |-> "none"]
IdleReq == [pc |-> "idle", kind |-> "url", g |-> 1, s |-> "A", res |-> "none"]
\* A handler that has returned, and one that waits for a lock nobody will release.
DoneReq == [IdleReq EXCEPT !.pc = "done"]
StuckReq == [IdleReq EXCEPT !.pc = "stuck"]
IdleCl == [pc |-> "idle", by |-> "none"]
NoInvoker == <<0, 0, "none">>
Watchers == {"check_task", "task"}
HdIdle == [w \in Watchers |-> 0]

----------------------------------------------------------------------------
(* CacheManager *)

\* SongData as from_url ("url", file_path preset to the expected .opus path in the
\* requesting player's directory) or add_to_queue ("search", no file_path) creates it.
\* No caller passes added_at, so the field is the class default of every entry, the
\* time of the import; `created` is the time the entry really was created, counted in
\* cleanup intervals, which the code does not record.
NewEntry(kind, g, s) ==
    [is_downloading |-> TRUE,
     file_path |-> IF kind = "url" THEN <<g, s>> ELSE <<>>,
     future |-> "running", kind |-> kind, owner |-> g, created |-> uptime]

\* A variant that looks at the entry's state instead of its presence: a download is
\* started unless the song is already downloaded.
NeedsDownloadUnlessReady(c, s) == s \notin DOMAIN c \/ c[s].is_downloading

\* `if not song_entry`: from_url and add_to_queue start a download only for an absent id.
NeedsDownload(c, s) == s \notin DOMAIN c

\* CacheManager.set, line 189: a new id and the cache is at its size limit.
CacheFull(ord, s) == ~InSeq(s, ord) /\ Len(ord) >= MaxCacheSize

\* A variant with a reentrant lock.
NestedAcquirePasses == FALSE

\* asyncio.Lock is not reentrant: a task that holds the lock and acquires it again
\* (set -> remove, periodic_cleanup -> cleanup_expired -> remove) waits for itself.
NestedAcquireBlocks == TRUE

CachePut(c, s, e) == [x \in DOMAIN c \cup {s} |-> IF x = s THEN e ELSE c[x]]
CacheDel(c, s) == [x \in DOMAIN c \ {s} |-> c[x]]
OrderPut(ord, s) == IF InSeq(s, ord) THEN ord ELSE Append(ord, s)

\* min(self.cache.items(), key=added_at): added_at is the dataclass default, evaluated
\* once, so every entry has the same added_at and min returns the first key.
OldestId(ord) == Head(ord)

\* CacheManager.remove: the entry's file is deleted with it.
FilesAfterRemove(fs, e) == IF e.file_path # <<>> THEN fs \ {e.file_path} ELSE fs

CacheState(c, ord, lock, fs, ev, done) ==
    [cache |-> c, order |-> ord, lock |-> lock, files |-> fs, evicted |-> ev, done |-> done]

\* CacheManager.set(s, e) called with the cache in the given state.  done = FALSE: the
\* caller never gets past the call.
CacheSet(c, ord, lock, fs, ev, s, e) ==
    IF lock THEN CacheState(c, ord, lock, fs, ev, FALSE)
    ELSE IF ~CacheFull(ord, s)
         THEN CacheState(CachePut(c, s, e), OrderPut(ord, s), lock, fs, ev, TRUE)
    ELSE IF NestedAcquireBlocks THEN CacheState(c, ord, TRUE, fs, ev, FALSE)
    ELSE LET old == OldestId(ord) IN
         CacheState(CachePut(CacheDel(c, old), s, e), Append(Tail(ord), s), lock,
                    FilesAfterRemove(fs, c[old]),
                    ev \cup {<<old, c[old].is_downloading>>}, TRUE)

\* cleanup_expired, line 251 (download_retries is never incremented).
Expirable(e) == ~e.is_downloading

\* A future resolves: every play_next and every link handler waiting on song s resumes.
WakePn(p, s, o) ==
    [g \in Guilds |-> IF p[g].pc = "wait" /\ p[g].song = s
                      THEN [p[g] EXCEPT !.pc = "woken", !.res = o] ELSE p[g]]
WakeReq(q, s, o) ==
    [r \in Requests |-> IF q[r].pc = "waiting" /\ q[r].s = s
                        THEN [q[r] EXCEPT !.pc = "woken", !.res = o] ELSE q[r]]

\* asyncio.wait_for gives up: it cancels the task it waited for.
CancelDownload(c, s) ==
    IF s \in DOMAIN c /\ c[s].future \in {"running", "blocked"}
    THEN [c EXCEPT ![s].future = "cancelled"] ELSE c

EndedBy(c, c2) == IF c2 # c THEN 1 ELSE 0

----------------------------------------------------------------------------
(* MusicPlayer.play_next *)

\* MusicPlayer.voice_client: "none"; "idle" and "playing" are a connected client
\* without and with an audio source; "dead" and "deadplaying" the same client when
\* is_connected() is False.
Live(v) == v \in {"idle", "playing"}
Dead(v) == v \in {"dead", "deadplaying"}
IsPlaying(v) == v \in {"playing", "deadplaying"}

\* ret: "false" is `return False`; "error" is an exception caught by the except branch
\* of lines 1529-1531 (logged, return False); "dead" is a CancelledError, which that
\* branch does not catch.
PNResult(pc, ret, q, cur, v, song) ==
    [pc |-> pc, ret |-> ret, q |-> q, cur |-> cur, vc |-> v, song |-> song]

\* Loop mode: the current song goes back to the front of the queue.
LoopedQueue(q, cur, lp) ==
    IF lp /\ cur # <<>> /\ ~InSeq(cur[1], q) THEN <<cur[1]>> \o q ELSE q

\* self.queue.popleft() followed by `return await self.play_next()`: the pop raises
\* IndexError on an empty deque (caught: return False); otherwise the recursive call
\* waits for queue_lock, which this very call holds.
DropHeadAndRecurse(q, cur, v, s) ==
    IF q = <<>> THEN PNResult("ret", "error", q, cur, v, s)
    ELSE PNResult("deadlock", "none", Tail(q), cur, v, s)

\* The queue after `self.queue.popleft()` of line 1506.
PopPlayed(q) == Tail(q)

\* Lines 1494-1527: verify the file, check the voice client, pop, start playback
\* (voice_client.play raises ClientException when something is playing already).
StartPlayback(q, cur, v, s, path, fs) ==
    IF path = <<>> \/ path \notin fs THEN DropHeadAndRecurse(q, cur, v, s)
    ELSE IF ~Live(v) THEN PNResult("ret", "false", q, cur, v, s)
    ELSE IF q = <<>> THEN PNResult("ret", "error", q, cur, v, s)
    ELSE IF v = "playing" THEN PNResult("ret", "error", PopPlayed(q), cur, v, s)
    ELSE PNResult("tail", "none", PopPlayed(q), <<s, path>>, "playing", s)

\* Lines 1464-1492, up to the wait for the download.
PlayNextBody(q0, cur, lp, c, lock, fs, v) ==
    LET q == LoopedQueue(q0, cur, lp) IN
    IF q = <<>> THEN PNResult("ret", "false", q, <<>>, v, NoSong)
    ELSE LET s == Head(q) IN
         IF lock THEN PNResult("stuck", "none", q, cur, v, s)
         ELSE IF s \notin DOMAIN c THEN DropHeadAndRecurse(q, cur, v, s)
         ELSE IF c[s].is_downloading /\ c[s].future \in {"running", "blocked"}
              THEN PNResult("wait", "none", q, cur, v, s)
         ELSE IF c[s].is_downloading /\ c[s].future = "exc"
              THEN PNResult("ret", "error", q, cur, v, s)
         ELSE IF c[s].is_downloading /\ c[s].future = "cancelled"
              THEN PNResult("ret", "dead", q, cur, v, s)
         ELSE StartPlayback(q, cur, v, s, c[s].file_path, fs)

\* play_next resumes from `await asyncio.wait_for(song_entry.download_future, 30)`.
\* song_entry is the object fetched before the wait: after a failed download of a
\* search-result track it is out of the cache and has no file_path.
PlayNextWoken(q, cur, c, fs, v, s, res) ==
    IF res = "exc" THEN PNResult("ret", "error", q, cur, v, s)
    ELSE IF res = "cancelled" THEN PNResult("ret", "dead", q, cur, v, s)
    ELSE IF res = "ok" /\ s \in DOMAIN c THEN StartPlayback(q, cur, v, s, c[s].file_path, fs)
    ELSE StartPlayback(q, cur, v, s, <<>>, fs)

\* The handler that called play_next returns after it (or dies with it).
ReqAfterReturn(rq, t) ==
    IF t[1] = "req" THEN [rq EXCEPT ![t[2]] = DoneReq] ELSE rq

LockFree(g) == holder[g] = NoTask /\ waiters[g] = <<>>

\* The now-playing messages of a guild's channel: n of them exist; ref tells whether
\* the one self.embed_message refers to is among them.
NoneShown == [n |-> 0, ref |-> FALSE]

\* cleanup_embed_message, lines 1203-1209: message.delete() fails on a message that is
\* gone already; e is `self.embed_message` being set.
ShownAfterDelete(sh, e) == [n |-> IF e /\ sh.ref THEN sh.n - 1 ELSE sh.n, ref |-> FALSE]

\* channel.send, lines 1371-1372.
ShownAfterSend(sh) == [n |-> sh.n + 1, ref |-> TRUE]

\* update_now_playing, lines 1363-1376, run without another task in between.
ShownAfterUpdate(sh, e, cur) ==
    IF cur # << >> THEN ShownAfterSend(ShownAfterDelete(sh, e)) ELSE ShownAfterDelete(sh, e)
CanRun(t) == running = NoTask \/ running = t

----------------------------------------------------------------------------
(* Initial values of the attempt-by-attempt download and of the other cogs *)

\* A download_song call that has not been made: `started` counts the attempts begun,
\* `parts` says that a fragment named after the song id lies in the music directory,
\* `file` that the finished audio file does.
FetchIdle == [pc |-> "idle", attempt |-> 0, started |-> 0, parts |-> FALSE, file |-> FALSE]
FetchInit == [s \in Songs |-> FetchIdle]

\* The tasks that act on a poll: its check_timeout task, a cancel command, the unloading
\* of the cog (close_all_polls), and the button callbacks of two users.
Voters == {"u1", "u2"}
Closers == {"timeout_task", "cancel_poll", "close_all_polls"}
PollTasks == Closers \cup Voters

\* No poll yet.  `message` is what the channel shows of the poll: "none", the "open"
\* view, the "closed" view, or "deleted"; `file` says that the data file exists;
\* `active` that the poll is in PollCog.active_polls; `lock` is the holder of
\* PollView.lock and `waiters` those waiting for it; `due` says that end_time has come;
\* `must_cancel` that the task running force_close has cancelled itself; `by` names the
\* caller of the force_close that closed the poll.
PollInit ==
    [created |-> FALSE, allow_multiple_votes |-> FALSE, is_closed |-> FALSE,
     disabled |-> FALSE, message |-> "none", file |-> FALSE, active |-> FALSE,
     votes |-> 0, voters |-> {}, lock |-> "none", waiters |-> << >>,
     pc |-> [t \in PollTasks |-> "idle"], due |-> FALSE, must_cancel |-> FALSE,
     by |-> "none", presses |-> 0]
\* TTS of one guild, off.  Messages are numbered in the order they are accepted: `n`
\* is the number accepted so far, `queue` the asyncio.Queue of the guild, `playing` the
\* message the voice client plays (0: none), `files` the messages whose temporary file
\* exists, `spoken` those whose playback was started, in order, `failed` those gTTS
\* could not convert.
TtsInit ==
    [on |-> FALSE, n |-> 0, queue |-> << >>, playing |-> 0, files |-> {},
     spoken |-> << >>, failed |-> {}]
\* Moderation data of one guild before anything was written: neither config.json nor
\* warnings.json exists.  `enabled` and `filtered` are warnings_enabled and a non-empty
\* filter_warnings of config.json, `stored` the content of warnings.json, `locked` the
\* module's data_lock, `hung` says that the thread of the event loop waits for
\* data_lock, `h` holds the on_message handlers, `owed` the sum of the warnings the
\* handlers have added per user, `missed` the file of the last load_data that found
\* no file.
ModUsers == {"a", "b"}
ModMsgs == 1..3
ModInit ==
    [config |-> FALSE, enabled |-> FALSE, filtered |-> FALSE, warnings |-> FALSE,
     stored |-> [u \in ModUsers |-> 0], locked |-> FALSE, hung |-> FALSE,
     h |-> [i \in ModMsgs |-> [pc |-> "idle", author |-> "a", total_warns |-> 0,
                               snap |-> [u \in ModUsers |-> 0]]],
     owed |-> [u \in ModUsers |-> 0], missed |-> "none"]

----------------------------------------------------------------------------
(* Initial state: the cog is loaded, nobody has asked for anything yet. *)

Init ==
    /\ cache = << >>
    /\ order = << >>
    /\ cacheLock = FALSE
    /\ files = {}
    /\ inflight = [s \in Songs |-> 0]
    /\ evicted = {}
    /\ asked = 0
    /\ cmds = 0
    /\ registered = [g \in Guilds |-> FALSE]
    /\ queue = [g \in Guilds |-> << >>]
    /\ current = [g \in Guilds |-> << >>]
    /\ loop = [g \in Guilds |-> FALSE]
    /\ volume = [g \in Guilds |-> DEFAULT_VOLUME]
    /\ vc = [g \in Guilds |-> "none"]
    /\ embed = [g \in Guilds |-> FALSE]
    /\ holder = [g \in Guilds |-> NoTask]
    /\ waiters = [g \in Guilds |-> << >>]
    /\ pn = [g \in Guilds |-> IdlePn]
    /\ cbPending = [g \in Guilds |-> 0]
    /\ req = [r \in Requests |-> IdleReq]
    /\ running = NoTask
    /\ humans = [g \in Guilds |-> TRUE]
    /\ views = [g \in Guilds |-> FALSE]
    /\ watch = [g \in Guilds |-> [check_task |-> FALSE, task |-> FALSE]]
    /\ cl = [g \in Guilds |-> IdleCl]
    /\ error_count = [g \in Guilds |-> 0]
    /\ uptime = 0
    /\ said = <<0, 0, "none", 0>>
    /\ shown = [g \in Guilds |-> NoneShown]
    /\ unloaded = FALSE
    /\ invoker = NoInvoker
    /\ fetch = FetchInit
    /\ poll = PollInit
    /\ tts = TtsInit
    /\ modr = ModInit
    /\ attempts = [g \in Guilds |-> 0]
    /\ hd = [g \in Guilds |-> HdIdle]
    /\ conns = [g \in Guilds |-> 0]

----------------------------------------------------------------------------
(* MusicCog.get_player *)

ReqActiveOn(g) == \E r \in Requests : req[r].g = g /\ req[r].pc \notin {"idle", "done", "stuck"}

\* A player object that was popped from MusicCog.players is gone for new requests.
\* One slot per guild stands for the guild's player object; a new MusicPlayer takes
\* the slot once nothing of the former object is left running.
SlotQuiet(g) ==
    /\ queue[g] = << >> /\ current[g] = << >> /\ vc[g] = "none" /\ ~embed[g]
    /\ ~loop[g] /\ volume[g] = DEFAULT_VOLUME
    /\ pn[g] = IdlePn /\ holder[g] = NoTask /\ waiters[g] = << >> /\ cbPending[g] = 0
    /\ cl[g] = IdleCl /\ ~ReqActiveOn(g)
    /\ ~watch[g].check_task /\ ~watch[g].task

CanGetPlayer(g) == registered[g] \/ SlotQuiet(g)

\* MusicPlayer.__init__ starts check_voice_channel twice: self.check_task (line 950)
\* and the first task of start_tasks (line 993).
WatchAfterGetPlayer(g) ==
    IF registered[g] THEN watch[g] ELSE [check_task |-> TRUE, task |-> TRUE]

\* A variant in which channel.connect never refuses.
AlreadyConnectedIgnored(n) == FALSE

\* channel.connect (lines 1101, 1569) raises ClientException when the guild has a
\* voice client already.
AlreadyConnected(n) == n > 0

\* voice_client.disconnect() takes the client out of the guild.
ConnsAfterDisconnect(n) == IF n > 0 THEN n - 1 ELSE n

\* connect_to_voice, lines 1087-1114: a connected client is reused; a client that is
\* not connected is disconnected (which stops its audio player) and dropped; then
\* channel.connect.  ok is the value returned.
ConnectToVoice(v, n) ==
    IF Live(v) THEN [vc |-> v, conns |-> n, ok |-> TRUE, stopped |-> FALSE]
    ELSE LET n1 == IF Dead(v) THEN ConnsAfterDisconnect(n) ELSE n IN
         IF AlreadyConnected(n1)
         THEN [vc |-> "none", conns |-> n1, ok |-> FALSE, stopped |-> v = "deadplaying"]
         ELSE [vc |-> "idle", conns |-> n1 + 1, ok |-> TRUE, stopped |-> v = "deadplaying"]

\* The state of the player after handle_voice_connection.
Connected(g, c) ==
    /\ vc' = [vc EXCEPT ![g] = c.vc]
    /\ conns' = [conns EXCEPT ![g] = c.conns]
    /\ cbPending' = [cbPending EXCEPT ![g] = IF c.stopped THEN 1 ELSE @]

\* Songs and guilds are interchangeable: the first song anybody asks for is called
\* "A", the next new one "B"; the first guild that is used is guild 1.
SongIx(s) == CHOOSE i \in 1..Len(SongOrder) : SongOrder[i] = s
SongOpen(s) == SongIx(s) <= asked + 1
AskedAfter(s) == IF SongIx(s) = asked + 1 THEN asked + 1 ELSE asked
GuildOpen(g) == IF g = 1 THEN TRUE ELSE req[1].pc # "idle" \/ views[1]

\* One more outside event of the run.
CanIssue == running = NoTask /\ cmds < MaxCmd /\ ~unloaded

\* The requests of a run are numbered in the order in which they arrive.
PrevStarted(r) == IF r = 1 THEN TRUE ELSE req[r - 1].pc # "idle"

----------------------------------------------------------------------------
(* Request handlers: MusicCog.play / handle_url_play, SearchResultsView callback *)

\* /play <link>: validate_voice_state, get_player, handle_voice_connection.
StartUrl(r, g, s) ==
    /\ CanIssue /\ req[r].pc = "idle" /\ PrevStarted(r)
    /\ GuildOpen(g) /\ SongOpen(s)
    /\ humans[g] /\ CanGetPlayer(g) /\ cl[g] = IdleCl
    /\ cmds' = cmds + 1
    /\ LET c == ConnectToVoice(vc[g], conns[g]) IN
       /\ Connected(g, c)
       /\ req' = [req EXCEPT ![r] = IF c.ok THEN [pc |-> "resolve", kind |-> "url", g |-> g,
                                                  s |-> s, res |-> "none"]
                                     ELSE DoneReq]
       /\ asked' = IF c.ok THEN AskedAfter(s) ELSE asked
    /\ registered' = [registered EXCEPT ![g] = TRUE]
    /\ watch' = [watch EXCEPT ![g] = WatchAfterGetPlayer(g)]
    /\ UNCHANGED <<cacheVars, queue, current, loop, volume, embed, shown, lockVars,
                   running, humans, views, cl>>
    /\ UNCHANGED <<cogVars, invoker, error_count, uptime, said, unloaded, attempts, hd>>

\* /play <words>: as above, then the search results are shown in a SearchResultsView.
SearchCommand(g) ==
    /\ CanIssue /\ GuildOpen(g)
    /\ humans[g] /\ CanGetPlayer(g) /\ cl[g] = IdleCl /\ ~views[g]
    /\ cmds' = cmds + 1
    /\ LET c == ConnectToVoice(vc[g], conns[g]) IN
       /\ Connected(g, c)
       /\ views' = [views EXCEPT ![g] = c.ok]
    /\ registered' = [registered EXCEPT ![g] = TRUE]
    /\ watch' = [watch EXCEPT ![g] = WatchAfterGetPlayer(g)]
    /\ UNCHANGED <<cacheVars, queue, current, loop, volume, embed, shown, lockVars,
                   req, running, humans, asked, cl>>
    /\ UNCHANGED <<cogVars, invoker, error_count, uptime, said, unloaded, attempts, hd>>

\* A search-result button: validate_interaction, get_player; no voice connection is made here.
StartSelect(r, g, s) ==
    /\ CanIssue /\ req[r].pc = "idle" /\ PrevStarted(r)
    /\ SongOpen(s)
    /\ cmds' = cmds + 1
    /\ humans[g] /\ views[g] /\ CanGetPlayer(g) /\ cl[g] = IdleCl
    /\ req' = [req EXCEPT ![r] = [pc |-> "add", kind |-> "select", g |-> g, s |-> s,
                                  res |-> "none"]]
    /\ asked' = AskedAfter(s)
    /\ registered' = [registered EXCEPT ![g] = TRUE]
    /\ watch' = [watch EXCEPT ![g] = WatchAfterGetPlayer(g)]
    /\ UNCHANGED <<cacheVars, queue, current, loop, volume, vc, embed, shown, lockVars, cbPending,
                   running, humans, views, cl>>
    /\ UNCHANGED <<cogVars, invoker, error_count, uptime, said, unloaded, attempts, hd, conns>>

\* cache_manager.get, and for an absent id cache_manager.set of a new entry
\* (from_url 531-543, add_to_queue 1294-1310).
EnsureEntry(kind, g, s) ==
    IF cacheLock THEN CacheState(cache, order, cacheLock, files, evicted, FALSE)
    ELSE IF ~NeedsDownload(cache, s)
         THEN CacheState(cache, order, cacheLock, files, evicted, TRUE)
    ELSE CacheSet(cache, order, cacheLock, files, evicted, s, NewEntry(kind, g, s))

\* asyncio.create_task(download_song(...)) after the set.
TaskCreated(st, s) == IF st.done /\ ~cacheLock /\ NeedsDownload(cache, s) THEN 1 ELSE 0

\* YTDLSource.from_url after get_video_info.
UrlResolve(r) ==
    LET g == req[r].g
        s == req[r].s
        t == ReqTask(r)
        st == EnsureEntry("url", g, s)
    IN
    /\ req[r].pc = "resolve" /\ CanRun(t)
    /\ cache' = st.cache /\ order' = st.order /\ cacheLock' = st.lock
    /\ files' = st.files /\ evicted' = st.evicted
    /\ inflight' = [inflight EXCEPT ![s] = @ + TaskCreated(st, s)]
    /\ req' = [req EXCEPT ![r] = IF st.done THEN [@ EXCEPT !.pc = "add"] ELSE StuckReq]
    /\ running' = IF st.done THEN t ELSE NoTask
    /\ UNCHANGED <<playerVars, lockVars, cbPending, envVars, watch, cl>>
    /\ UNCHANGED <<cogVars, invoker, error_count, uptime, said, unloaded, attempts, hd, conns>>

\* add_to_queue reaches `async with self.queue_lock`.
ReqAddAcquire(r) ==
    LET g == req[r].g
        t == ReqTask(r)
    IN
    /\ req[r].pc = "add" /\ CanRun(t)
    /\ IF LockFree(g)
       THEN /\ holder' = [holder EXCEPT ![g] = t]
            /\ req' = [req EXCEPT ![r].pc = "adding"]
            /\ running' = t
            /\ UNCHANGED waiters
       ELSE /\ waiters' = [waiters EXCEPT ![g] = Append(@, t)]
            /\ req' = [req EXCEPT ![r].pc = "addwait"]
            /\ running' = NoTask
            /\ UNCHANGED holder
    /\ UNCHANGED <<cacheVars, playerVars, pn, cbPending, envVars, watch, cl>>
    /\ UNCHANGED <<cogVars, invoker, error_count, uptime, said, unloaded, attempts, hd, conns>>

\* The body of add_to_queue, lines 1294-1313.
ReqAddBody(r) ==
    LET g == req[r].g
        s == req[r].s
        t == ReqTask(r)
        st == EnsureEntry("search", g, s)
    IN
    /\ req[r].pc = "adding" /\ CanRun(t)
    /\ cache' = st.cache /\ order' = st.order /\ cacheLock' = st.lock
    /\ files' = st.files /\ evicted' = st.evicted
    /\ inflight' = [inflight EXCEPT ![s] = @ + TaskCreated(st, s)]
    /\ IF st.done
       THEN /\ queue' = [queue EXCEPT ![g] = Append(@, s)]
            /\ holder' = [holder EXCEPT ![g] = NoTask]
            /\ req' = [req EXCEPT ![r].pc = IF req[r].kind = "url" THEN "wait" ELSE "check"]
            \* update_controls edits the now-playing message when there is one
            /\ running' = IF embed[g] THEN NoTask ELSE t
       ELSE /\ req' = [req EXCEPT ![r] = StuckReq]
            /\ running' = NoTask
            /\ UNCHANGED <<queue, holder>>
    /\ UNCHANGED <<registered, current, loop, volume, vc, embed, shown, waiters, pn,
                   cbPending, envVars, watch, cl>>
    /\ UNCHANGED <<cogVars, invoker, error_count, uptime, said, unloaded, attempts, hd, conns>>

\* handle_url_play, lines 1703-1710: wait for the download, at most 30 s.
UrlWait(r) ==
    LET s == req[r].s
        t == ReqTask(r)
        out == IF cacheLock THEN "stuck"
               ELSE IF s \in DOMAIN cache /\ cache[s].is_downloading
                    THEN cache[s].future ELSE "ok"
    IN
    /\ req[r].pc = "wait" /\ CanRun(t)
    /\ req' = [req EXCEPT ![r] = CASE out = "stuck" -> StuckReq
                                   [] out \in {"running", "blocked"} -> [@ EXCEPT !.pc = "waiting"]
                                   [] out = "ok" -> [@ EXCEPT !.pc = "check"]
                                   [] OTHER -> DoneReq]
    /\ running' = IF out = "ok" THEN t ELSE NoTask
    /\ UNCHANGED <<cacheVars, playerVars, lockVars, cbPending, envVars, watch, cl>>
    /\ UNCHANGED <<cogVars, invoker, error_count, uptime, said, unloaded, attempts, hd, conns>>

\* The awaited download task has ended: go on, or leave with its exception.
UrlWoken(r) ==
    /\ req[r].pc = "woken" /\ running = NoTask
    /\ req' = [req EXCEPT ![r] = IF req[r].res \in {"ok", "nofile"}
                                 THEN [@ EXCEPT !.pc = "check", !.res = "none"]
                                 ELSE DoneReq]
    /\ running' = IF req[r].res \in {"ok", "nofile"} THEN ReqTask(r) ELSE NoTask
    /\ UNCHANGED <<cacheVars, playerVars, lockVars, cbPending, envVars, watch, cl>>
    /\ UNCHANGED <<cogVars, invoker, error_count, uptime, said, unloaded, attempts, hd, conns>>

\* handle_url_play, lines 1708-1710: the 30 s are over.
UrlTimeout(r) ==
    LET s == req[r].s IN
    /\ req[r].pc = "waiting" /\ running = NoTask
    /\ cache' = CancelDownload(cache, s)
    /\ inflight' = [inflight EXCEPT ![s] = @ - EndedBy(cache, CancelDownload(cache, s))]
    /\ pn' = WakePn(pn, s, "cancelled")
    /\ req' = [WakeReq(req, s, "cancelled") EXCEPT ![r] = DoneReq]
    /\ UNCHANGED <<order, cacheLock, files, evicted, playerVars, holder, waiters, cbPending,
                   running, envVars, watch, cl>>
    /\ UNCHANGED <<cogVars, invoker, error_count, uptime, said, unloaded, attempts, hd, conns>>

\* `await self.play_next()` reaches `async with self.queue_lock`; play_next starts
\* with cleanup_embed_message, which suspends when there is a message to delete.
PlayNextFrame(t) == [pc |-> "body", owner |-> t, song |-> NoSong, res |-> "none"]

\* handle_url_play 1713-1717 and SearchResultsView callback 646-652.
ReqCheck(r) ==
    LET g == req[r].g
        t == ReqTask(r)
        out == IF req[r].kind = "url" /\ vc[g] = "none" THEN "error"
               ELSE IF IsPlaying(vc[g]) THEN "queued"
               ELSE IF LockFree(g) THEN "enter" ELSE "lockwait"
    IN
    /\ req[r].pc = "check" /\ CanRun(t)
    /\ req' = [req EXCEPT ![r] = CASE out = "enter" -> [@ EXCEPT !.pc = "inpn"]
                                   [] out = "lockwait" -> [@ EXCEPT !.pc = "lockwait"]
                                   [] OTHER -> DoneReq]
    /\ holder' = IF out = "enter" THEN [holder EXCEPT ![g] = t] ELSE holder
    /\ pn' = IF out = "enter" THEN [pn EXCEPT ![g] = PlayNextFrame(t)] ELSE pn
    /\ waiters' = IF out = "lockwait" THEN [waiters EXCEPT ![g] = Append(@, t)] ELSE waiters
    /\ running' = IF out = "enter" /\ ~embed[g] THEN t ELSE NoTask
    /\ shown' = IF out = "enter" THEN [shown EXCEPT ![g] = ShownAfterDelete(@, embed[g])]
                 ELSE shown
    /\ UNCHANGED <<cacheVars, registered, queue, current, loop, volume, vc, embed, cbPending,
                   envVars, watch, cl>>
    /\ UNCHANGED <<cogVars, invoker, error_count, uptime, said, unloaded, attempts, hd, conns>>

\* asyncio.Lock hands a released lock to its first waiter.
LockGrant(g) ==
    /\ running = NoTask /\ holder[g] = NoTask /\ waiters[g] # << >>
    /\ LET t == Head(waiters[g])
           adding == IF t[1] = "req" THEN req[t[2]].pc = "addwait" ELSE FALSE
       IN
       /\ holder' = [holder EXCEPT ![g] = t]
       /\ waiters' = [waiters EXCEPT ![g] = Tail(@)]
       /\ pn' = IF adding THEN pn ELSE [pn EXCEPT ![g] = PlayNextFrame(t)]
       /\ req' = IF t[1] # "req" THEN req
                 ELSE [req EXCEPT ![t[2]].pc = IF adding THEN "adding" ELSE "inpn"]
       /\ running' = IF adding \/ ~embed[g] THEN t ELSE NoTask
       /\ shown' = IF adding THEN shown
                    ELSE [shown EXCEPT ![g] = ShownAfterDelete(@, embed[g])]
    /\ UNCHANGED <<cacheVars, registered, queue, current, loop, volume, vc, embed, cbPending,
                   envVars, watch, cl>>
    /\ UNCHANGED <<cogVars, invoker, error_count, uptime, said, unloaded, attempts, hd, conns>>

----------------------------------------------------------------------------
(* Playback: the `after` callback, handle_playback_finished, play_next *)

CbActive(g) == holder[g] = CbTask(g) \/ InSeq(CbTask(g), waiters[g])

\* The audio player reaches the end of the source and calls `after`.
TrackEnds(g) ==
    /\ running = NoTask /\ vc[g] = "playing" /\ cbPending[g] = 0
    /\ vc' = [vc EXCEPT ![g] = "idle"]
    /\ cbPending' = [cbPending EXCEPT ![g] = 1]
    /\ UNCHANGED <<cacheVars, registered, queue, current, loop, volume, embed, shown, lockVars,
                   req, running, envVars, watch, cl>>
    /\ UNCHANGED <<cogVars, invoker, error_count, uptime, said, unloaded, attempts, hd, conns>>

\* handle_playback_finished starts and calls play_next.
CbStart(g) ==
    /\ running = NoTask /\ cbPending[g] > 0 /\ ~CbActive(g)
    /\ cbPending' = [cbPending EXCEPT ![g] = @ - 1]
    /\ IF LockFree(g)
       THEN /\ holder' = [holder EXCEPT ![g] = CbTask(g)]
            /\ pn' = [pn EXCEPT ![g] = PlayNextFrame(CbTask(g))]
            /\ running' = IF embed[g] THEN NoTask ELSE CbTask(g)
            /\ shown' = [shown EXCEPT ![g] = ShownAfterDelete(@, embed[g])]
            /\ UNCHANGED waiters
       ELSE /\ waiters' = [waiters EXCEPT ![g] = Append(@, CbTask(g))]
            /\ UNCHANGED <<holder, pn, running, shown>>
    /\ UNCHANGED <<cacheVars, registered, queue, current, loop, volume, vc, embed, req,
                   envVars, watch, cl>>
    /\ UNCHANGED <<cogVars, invoker, error_count, uptime, said, unloaded, attempts, hd, conns>>

\* What a step of play_next leaves behind: it returns (queue_lock released, the caller
\* goes on) or it is suspended inside the lock.
PNApply(g, res, pn1, rq1) ==
    /\ queue' = [queue EXCEPT ![g] = res.q]
    /\ current' = [current EXCEPT ![g] = res.cur]
    /\ vc' = [vc EXCEPT ![g] = res.vc]
    /\ running' = NoTask
    /\ IF res.pc = "ret"
       THEN /\ holder' = [holder EXCEPT ![g] = NoTask]
            /\ pn' = [pn1 EXCEPT ![g] = IdlePn]
            /\ req' = ReqAfterReturn(rq1, pn[g].owner)
       ELSE /\ pn' = [pn1 EXCEPT ![g] = [pc |-> res.pc, owner |-> pn[g].owner,
                                         song |-> res.song, res |-> "none"]]
            /\ req' = rq1
            /\ UNCHANGED holder

\* play_next from line 1462 to its first real suspension or its return.
PNBody(g) ==
    /\ pn[g].pc = "body" /\ CanRun(pn[g].owner)
    /\ embed' = [embed EXCEPT ![g] = FALSE]
    /\ shown' = [shown EXCEPT ![g].ref = FALSE]
    /\ PNApply(g, PlayNextBody(queue[g], current[g], loop[g], cache, cacheLock, files, vc[g]),
               pn, req)
    /\ UNCHANGED <<cacheVars, registered, loop, volume, waiters, cbPending, envVars, watch, cl>>
    /\ UNCHANGED <<cogVars, invoker, error_count, uptime, said, unloaded, attempts, hd, conns>>

\* play_next after the download it waited for has ended.
PNWoken(g) ==
    /\ pn[g].pc = "woken" /\ running = NoTask
    /\ PNApply(g, PlayNextWoken(queue[g], current[g], cache, files, vc[g], pn[g].song,
                                pn[g].res), pn, req)
    /\ UNCHANGED <<cacheVars, registered, loop, volume, embed, shown, waiters, cbPending, envVars,
                   watch, cl>>
    /\ UNCHANGED <<cogVars, invoker, error_count, uptime, said, unloaded, attempts, hd, conns>>

\* play_next, lines 1489-1492: the 30 s are over; the download is cancelled, the head
\* of the queue is dropped and play_next calls itself.
PNTimeout(g) ==
    LET s == pn[g].song IN
    /\ pn[g].pc = "wait" /\ running = NoTask
    /\ cache' = CancelDownload(cache, s)
    /\ inflight' = [inflight EXCEPT ![s] = @ - EndedBy(cache, CancelDownload(cache, s))]
    /\ PNApply(g, DropHeadAndRecurse(queue[g], current[g], vc[g], s),
               WakePn(pn, s, "cancelled"), WakeReq(req, s, "cancelled"))
    /\ UNCHANGED <<order, cacheLock, files, evicted, registered, loop, volume, embed, shown,
                   waiters, cbPending, envVars, watch, cl>>
    /\ UNCHANGED <<cogVars, invoker, error_count, uptime, said, unloaded, attempts, hd, conns>>

\* play_next, lines 1522-1524: update_now_playing has sent the message; return True.
PNTail(g) ==
    /\ pn[g].pc = "tail" /\ running = NoTask
    /\ embed' = [embed EXCEPT ![g] = current[g] # << >>]
    /\ shown' = [shown EXCEPT ![g] = IF current[g] # << >> THEN ShownAfterSend(@)
                                     ELSE [@ EXCEPT !.ref = FALSE]]
    /\ holder' = [holder EXCEPT ![g] = NoTask]
    /\ pn' = [pn EXCEPT ![g] = IdlePn]
    /\ req' = ReqAfterReturn(req, pn[g].owner)
    /\ UNCHANGED <<cacheVars, registered, queue, current, loop, volume, vc, waiters,
                   cbPending, running, envVars, watch, cl>>
    /\ UNCHANGED <<cogVars, invoker, error_count, uptime, said, unloaded, attempts, hd, conns>>

----------------------------------------------------------------------------
(* Download tasks: YTDLSource.download_song, MusicPlayer._download_song *)

Downloading(s) == s \in DOMAIN cache /\ cache[s].future = "running"

\* The retry loop of YTDLSource.download_song: outs[i] tells whether attempt i works.
AttemptOutcomes == [1..MAX_RETRIES -> BOOLEAN]
RECURSIVE DownloadLoop(_, _)
DownloadLoop(outs, attempt) ==
    IF outs[attempt + 1] THEN "ok"
    ELSE IF attempt = MAX_RETRIES - 1 THEN "exc"
    ELSE DownloadLoop(outs, attempt + 1)

\* The entry after a successful download.  The task from_url created returns the path
\* to nobody; only _download_song (search results) writes it back into the entry.
EntryDownloaded(e, lock, path) ==
    IF e.kind = "url" THEN [e EXCEPT !.future = "ok"]
    ELSE IF lock THEN [e EXCEPT !.future = "blocked"]
    ELSE [e EXCEPT !.future = "ok", !.is_downloading = FALSE, !.file_path = path]

\* Path of the file yt-dlp writes: the requesting player's directory, named after the id.
DownloadedFile(e, s) == <<e.owner, s>>

DownloadSucceeds(s) ==
    /\ running = NoTask /\ Downloading(s)
    /\ \E outs \in AttemptOutcomes : DownloadLoop(outs, 0) = "ok"
    /\ LET e == cache[s]
           e2 == EntryDownloaded(e, cacheLock, DownloadedFile(e, s))
       IN
       /\ cache' = [cache EXCEPT ![s] = e2]
       /\ files' = files \cup {DownloadedFile(e, s)}
       /\ IF e2.future = "ok"
          THEN /\ inflight' = [inflight EXCEPT ![s] = @ - 1]
               /\ pn' = WakePn(pn, s, "ok")
               /\ req' = WakeReq(req, s, "ok")
          ELSE UNCHANGED <<inflight, pn, req>>
    /\ UNCHANGED <<order, cacheLock, evicted, playerVars, holder, waiters, cbPending, running,
                   envVars, watch, cl>>
    /\ UNCHANGED <<cogVars, invoker, error_count, uptime, said, unloaded, attempts, hd, conns>>

\* The queue of the player that started the download, after `self.queue.remove(song_id)`
\* in the except branch of _download_song (no queue_lock is taken there).
QueueAfterFailure(q, s) == IF InSeq(s, q) THEN RemoveFirst(q, s) ELSE q

\* Every attempt fails: DownloadError.
DownloadFails(s) ==
    /\ running = NoTask /\ Downloading(s)
    /\ \E outs \in AttemptOutcomes : DownloadLoop(outs, 0) = "exc"
    /\ LET e == cache[s]
           g == e.owner
       IN
       IF e.kind = "url"
       THEN \* nobody handles the error: the task ends with the exception
            /\ cache' = [cache EXCEPT ![s].future = "exc"]
            /\ inflight' = [inflight EXCEPT ![s] = @ - 1]
            /\ pn' = WakePn(pn, s, "exc")
            /\ req' = WakeReq(req, s, "exc")
            /\ UNCHANGED <<order, queue, embed, shown>>
       ELSE /\ queue' = [queue EXCEPT ![g] = QueueAfterFailure(@, s)]
            /\ IF cacheLock
               THEN \* cache_manager.remove never gets the lock
                    /\ cache' = [cache EXCEPT ![s].future = "blocked"]
                    /\ UNCHANGED <<order, inflight, pn, req, embed, shown>>
               ELSE /\ cache' = CacheDel(cache, s)
                    /\ order' = RemoveFirst(order, s)
                    /\ inflight' = [inflight EXCEPT ![s] = @ - 1]
                    \* update_now_playing; then the task ends without an exception
                    /\ embed' = [embed EXCEPT ![g] = current[g] # << >>]
                    /\ shown' = [shown EXCEPT ![g] = ShownAfterUpdate(@, embed[g], current[g])]
                    /\ pn' = WakePn(pn, s, "nofile")
                    /\ req' = WakeReq(req, s, "nofile")
    /\ UNCHANGED <<cacheLock, files, evicted, registered, current, loop, volume, vc, holder,
                   waiters, cbPending, running, envVars, watch, cl>>
    /\ UNCHANGED <<cogVars, invoker, error_count, uptime, said, unloaded, attempts, hd, conns>>

\* timedelta(hours=1) in units of CACHE_CLEANUP_INTERVAL (1800 seconds).
IntervalsPerHour == 2

\* `current_time - data.added_at > timedelta(hours=1)`, line 250, at the pass that ends
\* interval number u: added_at is the import time, the same for every entry.
HourPassed(u) == u >= IntervalsPerHour

\* CacheManager.periodic_cleanup, every CACHE_CLEANUP_INTERVAL: it takes the lock and
\* calls cleanup_expired, which takes the lock.  With a lock that let it through, every
\* entry is older than the hour once the process is.
ExpiredIds(c, late) == IF late THEN {s \in DOMAIN c : Expirable(c[s])} ELSE {}

RECURSIVE RemoveAll(_, _)
RemoveAll(q, S) ==
    IF q = <<>> THEN <<>>
    ELSE IF Head(q) \in S THEN RemoveAll(Tail(q), S)
    ELSE <<Head(q)>> \o RemoveAll(Tail(q), S)

PeriodicCleanupPass ==
    /\ running = NoTask /\ uptime < MaxUptime /\ ~cacheLock
    /\ uptime' = uptime + 1
    /\ IF NestedAcquireBlocks
       THEN /\ cacheLock' = TRUE
            /\ UNCHANGED <<cache, order, files, evicted>>
       ELSE LET gone == ExpiredIds(cache, HourPassed(uptime + 1)) IN
            /\ cache' = [x \in DOMAIN cache \ gone |-> cache[x]]
            /\ order' = RemoveAll(order, gone)
            /\ files' = files \ {cache[x].file_path : x \in gone}
            /\ evicted' = evicted \cup {<<x, cache[x].is_downloading>> : x \in gone}
            /\ UNCHANGED cacheLock
    /\ UNCHANGED <<inflight, playerVars, lockVars, cbPending, req, running, envVars,
                   watch, cl>>
    /\ UNCHANGED <<cogVars, invoker, error_count, said, unloaded, attempts, hd, conns>>

----------------------------------------------------------------------------
(* Teardown: MusicPlayer.cleanup, MusicCog.stop, check_voice_channel *)

ClTask(g) == <<"cl", g>>

\* The last user leaves the voice channel the bot is in.
HumanLeaves(g) ==
    /\ CanIssue /\ humans[g] /\ vc[g] # "none"
    /\ cmds' = cmds + 1
    /\ humans' = [humans EXCEPT ![g] = FALSE]
    /\ UNCHANGED <<cacheVars, playerVars, lockVars, cbPending, req, running, views, asked,
                   watch, cl>>
    /\ UNCHANGED <<cogVars, invoker, error_count, uptime, said, unloaded, attempts, hd, conns>>

\* cleanup, lines 1121-1134: the tasks of start_tasks are cancelled (a watcher that
\* runs cleanup itself goes on to the end of it), playback is stopped, which calls
\* `after`, and the call waits in voice_client.disconnect().
WatchAfterCancel(w, by) == [w EXCEPT !.task = (by \in {"task", "hd_task"})]

\* A watcher that is gone is in no handle_disconnect.
HdAfter(h, w1) == [w \in Watchers |-> IF w1[w] THEN h[w] ELSE 0]

CleanupBegin(g, by, w0) ==
    /\ watch' = [watch EXCEPT ![g] = WatchAfterCancel(w0, by)]
    /\ IF vc[g] = "none"
       THEN /\ cl' = [cl EXCEPT ![g] = [pc |-> "reset", by |-> by]]
            /\ running' = ClTask(g)
            /\ UNCHANGED <<vc, cbPending>>
       ELSE /\ cl' = [cl EXCEPT ![g] = [pc |-> "disc", by |-> by]]
            /\ vc' = [vc EXCEPT ![g] = IF Dead(@) THEN "dead" ELSE "idle"]
            /\ cbPending' = [cbPending EXCEPT ![g] = IF IsPlaying(vc[g]) THEN 1 ELSE @]
            /\ running' = NoTask

\* cleanup, lines 1138-1144 and 1166: cleanup_file keeps the file of self.current;
\* cleanup_partial_downloads deletes the files of the directory that start with the
\* current song id; cleanup_music_directory goes through what is left.
FilesAfterCleanup(fs, g, cur) ==
    LET fs1 == IF cur # << >> THEN fs \ {<<g, cur[1]>>} ELSE fs
    IN {f \in fs1 : f[1] # g \/ (cur # << >> /\ f = cur[2])}

\* The caller of cleanup goes on: stop pops the player from the registry
\* (lines 1877, 914); a watcher leaves its loop (line 1244), or, when it came through
\* handle_disconnect ("hd_task", "hd_check_task"), goes on with its loop: the copy of
\* start_tasks for good, since its own cancellation ended at `await task`, line 1125;
\* self.check_task until the cancellation of line 1163 reaches it at its next sleep.
AfterCleanup(g, by) ==
    /\ registered' = [registered EXCEPT ![g] = IF by = "stop" THEN FALSE ELSE @]
    /\ cl' = [cl EXCEPT ![g] = IdleCl]
    /\ running' = NoTask

\* cleanup, lines 1135-1173.
CleanupReset(g) ==
    /\ vc' = [vc EXCEPT ![g] = "none"]
    /\ conns' = [conns EXCEPT ![g] = IF vc[g] # "none" THEN ConnsAfterDisconnect(@) ELSE @]
    /\ files' = FilesAfterCleanup(files, g, current[g])
    /\ embed' = [embed EXCEPT ![g] = FALSE]
    /\ shown' = [shown EXCEPT ![g] = ShownAfterDelete(@, embed[g])]
    /\ watch' = [watch EXCEPT ![g] = [check_task |-> FALSE, task |-> cl[g].by = "hd_task"]]
    /\ queue' = [queue EXCEPT ![g] = << >>]
    /\ current' = [current EXCEPT ![g] = << >>]
    /\ loop' = [loop EXCEPT ![g] = FALSE]
    /\ volume' = [volume EXCEPT ![g] = DEFAULT_VOLUME]

\* voice_client.disconnect() raised: `except Exception` at line 1176 ends cleanup there.
CleanupAbort(g, by) ==
    /\ watch' = [watch EXCEPT ![g] = IF by \in {"stop", "hd_task", "hd_check_task"} THEN @
                                      ELSE [@ EXCEPT ![by] = FALSE]]
    /\ UNCHANGED <<files, queue, current, loop, volume, vc, embed, shown, conns>>

\* voice_client.disconnect() returns or raises.
CleanupDisconnect(g) ==
    /\ running = NoTask /\ cl[g].pc = "disc"
    /\ \E ok \in BOOLEAN :
         IF ok THEN CleanupReset(g) ELSE CleanupAbort(g, cl[g].by)
    /\ AfterCleanup(g, cl[g].by)
    /\ hd' = [hd EXCEPT ![g] = HdAfter(@, watch'[g])]
    /\ UNCHANGED <<cache, order, cacheLock, inflight, evicted, lockVars, cbPending, req,
                   envVars>>
    /\ UNCHANGED <<cogVars, invoker, error_count, uptime, said, unloaded, attempts>>

\* cleanup of a player without a voice client.
CleanupNoVoice(g) ==
    /\ running = ClTask(g) /\ cl[g].pc = "reset"
    /\ CleanupReset(g)
    /\ AfterCleanup(g, cl[g].by)
    /\ hd' = [hd EXCEPT ![g] = HdAfter(@, watch'[g])]
    /\ UNCHANGED <<cache, order, cacheLock, inflight, evicted, lockVars, cbPending, req,
                   envVars>>
    /\ UNCHANGED <<cogVars, invoker, error_count, uptime, said, unloaded, attempts>>

\* Where the user who sends a command or presses a button is: in the voice channel
\* of the bot, in another voice channel, in none.
UserVoice == {"same", "other", "none"}

\* The test of the slash commands, `if not interaction.user.voice` (lines 1857, 1887,
\* 1940, 1960, 1982), and the one of the buttons, _validate_user (lines 839-847).
SlashAllowed(where) == where # "none"
ButtonAllowed(where) == where = "same"

\* A user in the bot's channel is one of humans[g]; a command from anywhere else is
\* noted in `invoker`.
IssuedFrom(g, where) ==
    /\ CanIssue /\ cl[g] = IdleCl
    /\ where = "same" => humans[g]
    /\ cmds' = cmds + 1
    /\ invoker' = IF where = "same" THEN invoker ELSE <<cmds + 1, g, where>>

\* MusicCog.stop, lines 1854-1882: get_player (a guild without a player gets a new
\* one), loop off, cleanup.
StopBy(g, where) ==
    /\ IssuedFrom(g, where)
    /\ registered[g] \/ (GuildOpen(g) /\ SlotQuiet(g))
    /\ IF SlashAllowed(where)
       THEN /\ registered' = [registered EXCEPT ![g] = TRUE]
            /\ loop' = [loop EXCEPT ![g] = FALSE]
            /\ CleanupBegin(g, "stop", WatchAfterGetPlayer(g))
            /\ hd' = [hd EXCEPT ![g] = HdAfter(@, watch'[g])]
       ELSE UNCHANGED <<registered, loop, watch, cl, vc, cbPending, running, hd>>
    /\ UNCHANGED <<cacheVars, queue, current, volume, embed, shown, lockVars, req,
                   humans, views, asked>>
    /\ UNCHANGED <<cogVars, error_count, uptime, said, unloaded, attempts, conns>>

Stop(g) == StopBy(g, "same")

\* check_voice_channel, lines 1240-1244: the bot is alone in the channel.
WatchPoll(g, w) ==
    /\ running = NoTask /\ watch[g][w] /\ vc[g] # "none" /\ ~humans[g] /\ cl[g] = IdleCl
    /\ CleanupBegin(g, w, watch[g])
    /\ hd' = [hd EXCEPT ![g] = HdAfter(@, watch'[g])]
    \* cleanup_and_disconnect, lines 1274-1281: every message of messages_to_clean
    /\ shown' = [shown EXCEPT ![g] = NoneShown]
    /\ UNCHANGED <<cacheVars, registered, queue, current, loop, volume, embed, lockVars, req,
                   envVars>>
    /\ UNCHANGED <<cogVars, invoker, error_count, uptime, said, unloaded, attempts, conns>>

----------------------------------------------------------------------------
(* Controls: skip, shuffle, loop, volume *)

\* MusicCog.skip, lines 1884-1901: voice_client.stop(), which calls `after`.
SkipBy(g, where) ==
    /\ IssuedFrom(g, where) /\ registered[g]
    /\ vc[g] = "playing" /\ cbPending[g] = 0
    /\ IF SlashAllowed(where)
       THEN /\ vc' = [vc EXCEPT ![g] = "idle"]
            /\ cbPending' = [cbPending EXCEPT ![g] = 1]
       ELSE UNCHANGED <<vc, cbPending>>
    /\ UNCHANGED <<cacheVars, registered, queue, current, loop, volume, embed, shown, lockVars,
                   req, running, humans, views, asked, watch, cl>>
    /\ UNCHANGED <<cogVars, error_count, uptime, said, unloaded, attempts, hd, conns>>

Skip(g) == SkipBy(g, "same")

\* random.shuffle(player.queue): any order of the same entries.
Shuffles(q) ==
    {[i \in 1..Len(q) |-> q[f[i]]] :
        f \in {h \in [1..Len(q) -> 1..Len(q)] : \A i, j \in 1..Len(q) : h[i] = h[j] => i = j}}

\* update_now_playing: the old message is deleted, a new one is sent unless
\* create_now_playing_embed fails on `self.current.get` (no current track).
EmbedAfterUpdate(cur) == cur # << >>

\* The answers of the two shuffles: the slash command refuses an empty queue
\* (line 1945), the button a queue of fewer than 2 entries (line 922).
ShuffleReply(q) == IF q = << >> THEN "refused" ELSE "shuffled"
ButtonShuffleReply(q) == IF Len(q) < 2 THEN "refused" ELSE "shuffled"

\* random.shuffle, send_message, update_now_playing (lines 1949-1951, 926-928).
ShuffleApply(g, text) ==
    /\ said' = <<cmds + 1, g, text, 0>>
    /\ IF text = "shuffled"
       THEN /\ \E q2 \in Shuffles(queue[g]) : queue' = [queue EXCEPT ![g] = q2]
            /\ embed' = [embed EXCEPT ![g] = EmbedAfterUpdate(current[g])]
            /\ shown' = [shown EXCEPT ![g] = ShownAfterUpdate(@, embed[g], current[g])]
       ELSE UNCHANGED <<queue, embed, shown>>

\* MusicCog.shuffle, lines 1937-1955: no queue_lock.
ShuffleBy(g, where) ==
    /\ IssuedFrom(g, where) /\ registered[g]
    /\ IF SlashAllowed(where)
       THEN ShuffleApply(g, ShuffleReply(queue[g]))
       ELSE UNCHANGED <<queue, embed, shown, said>>
    /\ UNCHANGED <<cacheVars, registered, current, loop, volume, vc, lockVars, cbPending,
                   req, running, humans, views, asked, watch, cl>>
    /\ UNCHANGED <<cogVars, error_count, uptime, unloaded, attempts, hd, conns>>

Shuffle(g) == ShuffleBy(g, "same")

\* MusicControlView.shuffle, lines 919-930: the button of the now-playing message;
\* _validate_user reads player.voice_client.channel.
ShuffleButton(g) ==
    /\ CanIssue /\ humans[g] /\ registered[g] /\ cl[g] = IdleCl
    /\ embed[g] /\ vc[g] # "none"
    /\ cmds' = cmds + 1
    /\ ShuffleApply(g, ButtonShuffleReply(queue[g]))
    /\ UNCHANGED <<cacheVars, registered, current, loop, volume, vc, lockVars, cbPending,
                   req, running, humans, views, asked, watch, cl>>
    /\ UNCHANGED <<cogVars, invoker, error_count, uptime, unloaded, attempts, hd, conns>>

\* `player.loop = not player.loop` (lines 1990, 899): the loop mode is a bool.
LoopAfterToggleOn(l) == TRUE
LoopAfterToggle(l) == ~l

\* MusicCog.toggle_loop, lines 1979-1998.
ToggleLoopBy(g, where) ==
    /\ IssuedFrom(g, where) /\ registered[g]
    /\ current[g] # << >> \/ queue[g] # << >>
    /\ IF SlashAllowed(where)
       THEN /\ loop' = [loop EXCEPT ![g] = LoopAfterToggle(@)]
            /\ said' = <<cmds + 1, g, "loop", 0>>
            /\ embed' = [embed EXCEPT ![g] = EmbedAfterUpdate(current[g])]
            /\ shown' = [shown EXCEPT ![g] = ShownAfterUpdate(@, embed[g], current[g])]
       ELSE UNCHANGED <<loop, said, embed, shown>>
    /\ UNCHANGED <<cacheVars, registered, queue, current, volume, vc, lockVars, cbPending,
                   req, running, humans, views, asked, watch, cl>>
    /\ UNCHANGED <<cogVars, error_count, uptime, unloaded, attempts, hd, conns>>

ToggleLoop(g) == ToggleLoopBy(g, "same")

\* MusicControlView.toggle_loop, lines 890-907: the button of the now-playing message.
\* It answers by its new style, not by a message, and the now-playing message is sent
\* anew only when there is a current track.
ToggleLoopButton(g) ==
    /\ CanIssue /\ humans[g] /\ registered[g] /\ cl[g] = IdleCl
    /\ embed[g] /\ vc[g] # "none"
    /\ cmds' = cmds + 1
    /\ current[g] # << >> \/ queue[g] # << >>
    /\ loop' = [loop EXCEPT ![g] = LoopAfterToggle(@)]
    /\ said' = <<cmds + 1, g, "loop_button", 0>>
    /\ embed' = [embed EXCEPT ![g] = IF current[g] # << >> THEN EmbedAfterUpdate(current[g])
                                                            ELSE @]
    /\ shown' = [shown EXCEPT ![g] = IF current[g] # << >>
                                     THEN ShownAfterUpdate(@, embed[g], current[g]) ELSE @]
    /\ UNCHANGED <<cacheVars, registered, queue, current, volume, vc, lockVars,
                   cbPending, req, running, humans, views, asked, watch, cl>>
    /\ UNCHANGED <<cogVars, invoker, error_count, uptime, unloaded, attempts, hd, conns>>

\* The parameter range of the volume command, line 1958: discord.py refuses a level
\* outside of it before the handler runs.
LevelAcceptedAny(level) == TRUE
LevelAccepted(level) == level \in MinLevel..MaxLevel

\* MusicCog.volume, lines 1957-1977: needs a voice client with a source; set_volume
\* (lines 979-988) stores the value as it comes.
SetVolumeBy(g, level, where) ==
    /\ IssuedFrom(g, where) /\ registered[g]
    /\ IF ~LevelAccepted(level)
       THEN /\ said' = <<cmds + 1, g, "range", level>>
            /\ UNCHANGED <<volume, embed, shown>>
       ELSE IF SlashAllowed(where)
       THEN /\ vc[g] = "playing"
            /\ volume' = [volume EXCEPT ![g] = level]
            /\ embed' = [embed EXCEPT ![g] = EmbedAfterUpdate(current[g])]
            /\ shown' = [shown EXCEPT ![g] = ShownAfterUpdate(@, embed[g], current[g])]
            /\ said' = <<cmds + 1, g, "volume", level>>
       ELSE UNCHANGED <<volume, embed, shown, said>>
    /\ UNCHANGED <<cacheVars, registered, queue, current, loop, vc, lockVars, cbPending,
                   req, running, humans, views, asked, watch, cl>>
    /\ UNCHANGED <<cogVars, error_count, uptime, unloaded, attempts, hd, conns>>

SetVolume(g, level) == SetVolumeBy(g, level, "same")

----------------------------------------------------------------------------

Next ==
    \/ \E r \in Requests, g \in Guilds, s \in Songs : StartUrl(r, g, s)
    \/ \E g \in Guilds : SearchCommand(g)
    \/ \E r \in Requests, g \in Guilds, s \in Songs : StartSelect(r, g, s)
    \/ \E r \in Requests : UrlResolve(r)
    \/ \E r \in Requests : ReqAddAcquire(r)
    \/ \E r \in Requests : ReqAddBody(r)
    \/ \E r \in Requests : UrlWait(r)
    \/ \E r \in Requests : UrlWoken(r)
    \/ \E r \in Requests : UrlTimeout(r)
    \/ \E r \in Requests : ReqCheck(r)
    \/ \E g \in Guilds : LockGrant(g)
    \/ \E g \in Guilds : TrackEnds(g)
    \/ \E g \in Guilds : CbStart(g)
    \/ \E g \in Guilds : PNBody(g)
    \/ \E g \in Guilds : PNWoken(g)
    \/ \E g \in Guilds : PNTimeout(g)
    \/ \E g \in Guilds : PNTail(g)
    \/ \E s \in Songs : DownloadSucceeds(s)
    \/ \E s \in Songs : DownloadFails(s)
    \/ PeriodicCleanupPass
    \/ \E g \in Guilds : HumanLeaves(g)
    \/ \E g \in Guilds : Stop(g)
    \/ \E g \in Guilds, w \in Watchers : WatchPoll(g, w)
    \/ \E g \in Guilds : CleanupDisconnect(g)
    \/ \E g \in Guilds : CleanupNoVoice(g)
    \/ \E g \in Guilds : Skip(g)
    \/ \E g \in Guilds : Shuffle(g)
    \/ \E g \in Guilds : ShuffleButton(g)
    \/ \E g \in Guilds : ToggleLoop(g)
    \/ \E g \in Guilds : ToggleLoopButton(g)
    \/ \E g \in Guilds, level \in Levels : SetVolume(g, level)

Spec == Init /\ [][Next]_vars

\* The state after the first play request of guild 1, a link to song A, has been served:
\* A is downloaded and playing, the handler is done.  The events of a run are counted
\* from there.
InitPlaying ==
    /\ uptime = 0
    /\ cache = [x \in {"A"} |-> [NewEntry("url", 1, "A") EXCEPT !.future = "ok", !.created = 0]]
    /\ order = <<"A">>
    /\ cacheLock = FALSE
    /\ files = {<<1, "A">>}
    /\ inflight = [s \in Songs |-> 0]
    /\ evicted = {}
    /\ asked = 1
    /\ cmds = 0
    /\ registered = [g \in Guilds |-> g = 1]
    /\ queue = [g \in Guilds |-> << >>]
    /\ current = [g \in Guilds |-> IF g = 1 THEN <<"A", <<1, "A">>>> ELSE << >>]
    /\ loop = [g \in Guilds |-> FALSE]
    /\ volume = [g \in Guilds |-> DEFAULT_VOLUME]
    /\ vc = [g \in Guilds |-> IF g = 1 THEN "playing" ELSE "none"]
    /\ embed = [g \in Guilds |-> g = 1]
    /\ holder = [g \in Guilds |-> NoTask]
    /\ waiters = [g \in Guilds |-> << >>]
    /\ pn = [g \in Guilds |-> IdlePn]
    /\ cbPending = [g \in Guilds |-> 0]
    /\ req = [r \in Requests |-> IF r = 1 THEN DoneReq ELSE IdleReq]
    /\ running = NoTask
    /\ humans = [g \in Guilds |-> TRUE]
    /\ views = [g \in Guilds |-> FALSE]
    /\ watch = [g \in Guilds |-> [check_task |-> g = 1, task |-> g = 1]]
    /\ cl = [g \in Guilds |-> IdleCl]
    /\ error_count = [g \in Guilds |-> 0]
    /\ said = <<0, 0, "none", 0>>
    /\ shown = [g \in Guilds |-> IF g = 1 THEN ShownAfterSend(NoneShown) ELSE NoneShown]
    /\ unloaded = FALSE
    /\ invoker = NoInvoker
    /\ fetch = FetchInit
    /\ poll = PollInit
    /\ tts = TtsInit
    /\ modr = ModInit
    /\ attempts = [g \in Guilds |-> 0]
    /\ hd = [g \in Guilds |-> HdIdle]
    /\ conns = [g \in Guilds |-> IF g = 1 THEN 1 ELSE 0]

\* The runs from there in which the users only search and pick search results.
NextPlaying ==
    \/ \E g \in Guilds : SearchCommand(g)
    \/ \E r \in Requests, g \in Guilds, s \in Songs : StartSelect(r, g, s)
    \/ \E r \in Requests : ReqAddAcquire(r)
    \/ \E r \in Requests : ReqAddBody(r)
    \/ \E r \in Requests : ReqCheck(r)
    \/ \E g \in Guilds : LockGrant(g)
    \/ \E g \in Guilds : TrackEnds(g)
    \/ \E g \in Guilds : CbStart(g)
    \/ \E g \in Guilds : PNBody(g)
    \/ \E g \in Guilds : PNWoken(g)
    \/ \E g \in Guilds : PNTimeout(g)
    \/ \E g \in Guilds : PNTail(g)
    \/ \E s \in Songs : DownloadSucceeds(s)
    \/ \E s \in Songs : DownloadFails(s)

SpecPlaying == InitPlaying /\ [][NextPlaying]_vars

\* The state after guild 1's first play request, a link to song A, has timed out, the
\* last user has left the voice channel, the occupancy watcher has torn the player
\* down, and a user has come back to the channel.  The events of a run are counted
\* from there.
InitReused ==
    /\ uptime = 0
    /\ cache = [x \in {"A"} |-> [NewEntry("url", 1, "A") EXCEPT !.future = "cancelled"]]
    /\ order = <<"A">>
    /\ cacheLock = FALSE
    /\ files = {}
    /\ inflight = [s \in Songs |-> 0]
    /\ evicted = {}
    /\ asked = 1
    /\ cmds = 0
    /\ registered = [g \in Guilds |-> g = 1]
    /\ queue = [g \in Guilds |-> << >>]
    /\ current = [g \in Guilds |-> << >>]
    /\ loop = [g \in Guilds |-> FALSE]
    /\ volume = [g \in Guilds |-> DEFAULT_VOLUME]
    /\ vc = [g \in Guilds |-> "none"]
    /\ embed = [g \in Guilds |-> FALSE]
    /\ holder = [g \in Guilds |-> NoTask]
    /\ waiters = [g \in Guilds |-> << >>]
    /\ pn = [g \in Guilds |-> IdlePn]
    /\ cbPending = [g \in Guilds |-> 0]
    /\ req = [r \in Requests |-> IF r = 1 THEN DoneReq ELSE IdleReq]
    /\ running = NoTask
    /\ humans = [g \in Guilds |-> TRUE]
    /\ views = [g \in Guilds |-> FALSE]
    /\ watch = [g \in Guilds |-> [check_task |-> FALSE, task |-> FALSE]]
    /\ cl = [g \in Guilds |-> IdleCl]
    /\ error_count = [g \in Guilds |-> 0]
    /\ said = <<0, 0, "none", 0>>
    /\ shown = [g \in Guilds |-> NoneShown]
    /\ unloaded = FALSE
    /\ invoker = NoInvoker
    /\ fetch = FetchInit
    /\ poll = PollInit
    /\ tts = TtsInit
    /\ modr = ModInit
    /\ attempts = [g \in Guilds |-> 0]
    /\ hd = [g \in Guilds |-> HdIdle]
    /\ conns = [g \in Guilds |-> 0]

SpecReused == InitReused /\ [][Next]_vars

\* MusicCog.cog_unload, lines 1607-1611.  CacheManager has no method stop_cleanup_task
\* (its only task methods are start_cleanup_task and periodic_cleanup), so line 1609
\* raises AttributeError: the cleanup task is not cancelled and the loop over the
\* players is not reached.
CogUnload ==
    /\ CanIssue
    /\ cmds' = cmds + 1
    /\ unloaded' = TRUE
    /\ UNCHANGED <<cacheVars, playerVars, lockVars, cbPending, req, running, humans, views,
                   asked, watch, cl>>
    /\ UNCHANGED <<cogVars, invoker, error_count, uptime, said, attempts, hd, conns>>

\* Runs from the playing state in which the cog is unloaded at some point.
NextUnload ==
    \/ CogUnload
    \/ PeriodicCleanupPass
    \/ \E g \in Guilds : SearchCommand(g)
    \/ \E r \in Requests, g \in Guilds, s \in Songs : StartSelect(r, g, s)
    \/ \E r \in Requests : ReqAddAcquire(r)
    \/ \E r \in Requests : ReqAddBody(r)
    \/ \E r \in Requests : ReqCheck(r)
    \/ \E s \in Songs : DownloadSucceeds(s)
    \/ \E s \in Songs : DownloadFails(s)
    \/ \E g \in Guilds : TrackEnds(g)
    \/ \E g \in Guilds : CbStart(g)
    \/ \E g \in Guilds : PNBody(g)
    \/ \E g \in Guilds : PNTail(g)
    \/ \E g \in Guilds : HumanLeaves(g)
    \/ \E g \in Guilds, w \in Watchers : WatchPoll(g, w)
    \/ \E g \in Guilds : CleanupDisconnect(g)

SpecUnload == InitPlaying /\ [][NextUnload]_vars

----------------------------------------------------------------------------
(* Voice reconnection: check_voice_channel 1246-1249, MusicPlayer.handle_disconnect *)

\* The reconnection attempts of a guild that a run follows.
MaxAttempts == 4

WatchTask(g, w) == <<w, g>>
WatcherBusy(g, w) ==
    \/ hd[g][w] > 0
    \/ holder[g] = WatchTask(g, w)
    \/ InSeq(WatchTask(g, w), waiters[g])

\* The voice connection of guild g goes down without the player asking for it.
\* kept: the library goes on trying to bring the client back, which stays the guild's
\* voice client and keeps its audio player waiting; otherwise the client is
\* disconnected for good, which stops the audio player and calls `after`.
VoiceDrops(g) ==
    /\ CanIssue /\ Live(vc[g]) /\ cl[g] = IdleCl /\ cbPending[g] = 0
    /\ cmds' = cmds + 1
    /\ attempts' = [attempts EXCEPT ![g] = 0]
    /\ \E kept \in BOOLEAN :
         /\ vc' = [vc EXCEPT ![g] = IF kept /\ @ = "playing" THEN "deadplaying" ELSE "dead"]
         /\ conns' = [conns EXCEPT ![g] = IF kept THEN @ ELSE ConnsAfterDisconnect(@)]
         /\ cbPending' = [cbPending EXCEPT ![g] = IF ~kept /\ vc[g] = "playing" THEN 1 ELSE @]
    /\ UNCHANGED <<cacheVars, registered, queue, current, loop, volume, embed, shown, lockVars,
                   req, running, humans, views, asked, watch, cl>>
    /\ UNCHANGED <<cogVars, invoker, error_count, uptime, said, unloaded, hd>>

\* check_voice_channel, lines 1240-1249: the bot is not alone and the client is not
\* connected; handle_disconnect starts and sleeps before its first attempt.
WatchHealth(g, w) ==
    /\ running = NoTask /\ watch[g][w] /\ ~WatcherBusy(g, w)
    /\ Dead(vc[g]) /\ humans[g] /\ cl[g] = IdleCl
    /\ hd' = [hd EXCEPT ![g][w] = 1]
    /\ UNCHANGED <<cacheVars, playerVars, lockVars, cbPending, req, running, envVars, watch,
                   cl>>
    /\ UNCHANGED <<cogVars, invoker, error_count, uptime, said, unloaded, attempts, conns>>

\* handle_disconnect, lines 1575-1580, after channel.connect has returned:
\* `if self.current: await self.play_next()`, then return.
Reconnected(g, w) ==
    LET t == WatchTask(g, w) IN
    /\ vc' = [vc EXCEPT ![g] = "idle"]
    /\ conns' = [conns EXCEPT ![g] = @ + 1]
    /\ hd' = [hd EXCEPT ![g][w] = 0]
    /\ IF current[g] = << >>
       THEN UNCHANGED <<holder, waiters, pn, running, shown>>
       ELSE IF LockFree(g)
       THEN /\ holder' = [holder EXCEPT ![g] = t]
            /\ pn' = [pn EXCEPT ![g] = PlayNextFrame(t)]
            /\ running' = IF embed[g] THEN NoTask ELSE t
            /\ shown' = [shown EXCEPT ![g] = ShownAfterDelete(@, embed[g])]
            /\ UNCHANGED waiters
       ELSE /\ waiters' = [waiters EXCEPT ![g] = Append(@, t)]
            /\ UNCHANGED <<holder, pn, running, shown>>
    /\ UNCHANGED <<cbPending, watch, cl>>

\* handle_disconnect, lines 1582-1587: the attempt raised; after the third one cleanup.
AttemptFailed(g, w) ==
    IF hd[g][w] < MAX_RECONNECT
    THEN /\ hd' = [hd EXCEPT ![g][w] = @ + 1]
         /\ UNCHANGED <<vc, conns, holder, waiters, pn, running, shown, cbPending, watch, cl>>
    ELSE /\ CleanupBegin(g, IF w = "task" THEN "hd_task" ELSE "hd_check_task", watch[g])
         /\ hd' = [hd EXCEPT ![g] = HdAfter([@ EXCEPT ![w] = 0], watch'[g])]
         /\ UNCHANGED <<conns, holder, waiters, pn, shown>>

\* One pass of the loop of handle_disconnect, lines 1564-1583: the sleep is over and
\* channel.connect returns or raises.
HdAttempt(g, w) ==
    /\ running = NoTask /\ watch[g][w] /\ hd[g][w] > 0 /\ cl[g] = IdleCl
    /\ attempts[g] < MaxAttempts
    /\ attempts' = [attempts EXCEPT ![g] = @ + 1]
    /\ \E ok \in BOOLEAN :
         IF ok /\ ~AlreadyConnected(conns[g]) THEN Reconnected(g, w) ELSE AttemptFailed(g, w)
    /\ UNCHANGED <<cacheVars, registered, queue, current, loop, volume, embed, req, envVars>>
    /\ UNCHANGED <<cogVars, invoker, error_count, uptime, said, unloaded>>

\* Runs from the playing state in which the voice connection goes down.
NextVoice ==
    \/ \E g \in Guilds : VoiceDrops(g)
    \/ \E g \in Guilds, w \in Watchers : WatchHealth(g, w)
    \/ \E g \in Guilds, w \in Watchers : HdAttempt(g, w)
    \/ \E g \in Guilds : SearchCommand(g)
    \/ \E g \in Guilds : ToggleLoop(g)
    \/ \E g \in Guilds : CbStart(g)
    \/ \E g \in Guilds : PNBody(g)
    \/ \E g \in Guilds : PNTail(g)
    \/ \E g \in Guilds : LockGrant(g)
    \/ \E g \in Guilds : CleanupDisconnect(g)

SpecVoice == InitPlaying /\ [][NextVoice]_vars

----------------------------------------------------------------------------
(* Properties *)

\* C1: for every song id at most one download task is in flight at any time, whatever
\* number of requests for it arrive, from whichever guilds: a request for an id that
\* is in the cache joins the entry's download instead of starting another one.
C1_OneDownloadPerSong == \A s \in Songs : inflight[s] <= 1

\* Two link requests of different guilds wait for one and the same running download.
C1_SharedDownload ==
    \E r1, r2 \in Requests :
        /\ r1 # r2 /\ req[r1].g # req[r2].g /\ req[r1].s = req[r2].s
        /\ req[r1].pc = "waiting" /\ req[r2].pc = "waiting"
        /\ Downloading(req[r1].s) /\ inflight[req[r1].s] = 1

\* C2: play_next always returns: a head entry that cannot be played (no cache entry,
\* download not finished within the 30 s, no file) is dropped and play_next goes on
\* with the rest of the queue; it is never left waiting for the queue lock that it
\* holds itself.
C2_PlayNextReturns == \A g \in Guilds : pn[g].pc # "deadlock"

\* Something is under way for the player of guild g that will call play_next or tear
\* the player down: a track is playing (its `after` callback will come), a callback or
\* a handler is scheduled, running or waiting for the queue lock, a cleanup is in
\* progress, or the channel is empty and a watcher is alive.
MoreToCome(g) ==
    \/ vc[g] = "playing"
    \/ cbPending[g] > 0 \/ holder[g] # NoTask \/ waiters[g] # << >>
    \/ cl[g] # IdleCl
    \/ ReqActiveOn(g)
    \/ ~humans[g] /\ vc[g] # "none" /\ (watch[g].check_task \/ watch[g].task)

\* C3: no failure leaves a non-empty queue stuck: when play_next of a registered
\* player returns without having started an entry and entries are still queued, a
\* further play_next or a teardown is to come.
C3_NoStalledQueue ==
    [][\A g \in Guilds :
         (/\ pn[g].pc \in {"body", "woken"} /\ pn'[g] = IdlePn
          /\ registered'[g] /\ queue'[g] # << >>)
             => MoreToCome(g)']_vars

\* C4: when the download of a queued track fails after its MAX_RETRIES attempts, the
\* track's entry leaves the cache and the track leaves every queue, for a track
\* enqueued by link as for one enqueued from the search results.
C4_FailedDownloadRemoved ==
    [][\A s \in Songs :
         (Downloading(s) /\ (s \notin DOMAIN cache' \/ cache'[s].future = "exc"))
             => /\ s \notin DOMAIN cache'
                /\ \A g \in Guilds : ~InSeq(s, queue'[g])]_vars

\* C5: track A is current and over, the queue is [B] with B downloaded and its file in
\* place; the play_next of A's completion callback makes B the current track and
\* leaves the queue empty, and the player no longer refers to A's file.
C5_CallbackPlaysNext ==
    [][\A g \in Guilds :
         (/\ pn[g].pc = "body" /\ pn[g].owner = CbTask(g) /\ pn'[g] # pn[g]
          /\ current[g] # << >> /\ Len(queue[g]) = 1 /\ Head(queue[g]) # current[g][1]
          /\ ~loop[g] /\ vc[g] = "idle" /\ cl[g] = IdleCl
          /\ Head(queue[g]) \in DOMAIN cache
          /\ cache[Head(queue[g])].future = "ok"
          /\ cache[Head(queue[g])].file_path \in files)
             => /\ queue'[g] = << >>
                /\ current'[g] = <<Head(queue[g]), cache[Head(queue[g])].file_path>>
                /\ vc'[g] = "playing"]_vars

\* C6: the first request of a run enqueues a track on an idle player; its download
\* succeeds, nobody leaves and nobody stops the player.  When the handler is through,
\* the track is the current track, playback has started and the queue is empty.
C6_IdleEnqueuePlays ==
    [][(/\ req[1].pc \notin {"idle", "done", "stuck"} /\ req'[1] = DoneReq
        /\ \A r \in Requests \ {1} : req[r].pc = "idle"
        /\ registered[req[1].g] /\ humans[req[1].g] /\ cl[req[1].g] = IdleCl
        /\ req[1].s \in DOMAIN cache /\ cache[req[1].s].future = "ok"
        /\ cache[req[1].s].file_path \in files)
           => /\ current'[req[1].g] = <<req[1].s, cache[req[1].s].file_path>>
              /\ queue'[req[1].g] = << >>]_vars

\* C7: the voice channel is empty while a track is current; when the teardown that the
\* occupancy check started is through, the queue is empty, there is no voice
\* connection, nothing is playing and the file of the current track is deleted.
C7_EmptyChannelTeardown ==
    [][\A g \in Guilds :
         (/\ cl[g].pc = "disc" /\ cl[g].by # "stop" /\ cl'[g] = IdleCl
          /\ ~humans[g] /\ current[g] # << >>)
             => /\ vc'[g] = "none" /\ queue'[g] = << >> /\ current'[g] = << >>
                /\ current[g][2] \notin files']_vars

\* C8: when stop is through, the guild has no player in the registry and the stopped
\* player has an empty queue, no current track, no voice connection, loop off and the
\* default volume, whatever happened while it ran.
C8_StopResetsPlayer ==
    [][\A g \in Guilds :
         (cl[g] # IdleCl /\ cl[g].by = "stop" /\ cl'[g] = IdleCl)
             => /\ ~registered'[g]
                /\ queue'[g] = << >> /\ current'[g] = << >> /\ vc'[g] = "none"
                /\ ~loop'[g] /\ volume'[g] = DEFAULT_VOLUME]_vars

\* C9: the queue is not modified between play_next's look at the head entry and its
\* removal of it (while play_next waits for the download inside the queue lock), and
\* the entry play_next removes is the one that becomes the current track.
C9_QueueLockExcludes ==
    [][\A g \in Guilds :
         /\ (pn[g].pc \in {"wait", "woken"} /\ pn'[g].pc \in {"wait", "woken"})
                => queue'[g] = queue[g]
         /\ (pn[g].pc = "woken" /\ pn'[g].pc = "tail")
                => (queue[g] # << >> /\ current'[g][1] = Head(queue[g]))]_vars

C11_OnlyCacheDeletesFiles ==
    [][\A s \in DOMAIN cache :
         (cache[s].file_path \in files /\ cache[s].file_path \notin files')
             => s \notin DOMAIN cache']_vars

\* MAX_QUEUE_SIZE (line 59), scaled down from 1000.  No code of the cog reads it:
\* MusicPlayer.queue is a deque without maxlen and add_to_queue appends unconditionally.
MaxQueueSize == 2

\* C12: the queue of a player never holds more than the maximum queue size: an enqueue
\* on a queue at capacity is rejected and leaves the queue as it was.
C12_QueueBounded == \A g \in Guilds : Len(queue[g]) <= MaxQueueSize

\* The step of play_next in guild g ends in its except branch.
PlayNextRaises(g) ==
    \/ /\ pn[g].pc = "body"
       /\ PlayNextBody(queue[g], current[g], loop[g], cache, cacheLock, files, vc[g]).ret
              = "error"
    \/ /\ pn[g].pc = "woken"
       /\ PlayNextWoken(queue[g], current[g], cache, files, vc[g], pn[g].song,
                        pn[g].res).ret = "error"

\* C13: every exception raised while play_next sets up playback increments the
\* player's error counter (which, over its threshold, makes the player tear itself
\* down).
C13_ErrorsCounted ==
    [][\A g \in Guilds :
         (PlayNextRaises(g) /\ pn'[g] = IdlePn)
             => error_count'[g] = error_count[g] + 1]_vars

\* Number of occurrences of s in the queue q.
Count(q, s) == Cardinality({i \in 1..Len(q) : q[i] = s})

\* C14: a shuffle, by command or by button, of a queue of fewer than 2 entries leaves
\* the queue as it is and is answered with a refusal; a shuffle of a longer queue
\* leaves a permutation of it.
C14_ShuffleAnswers ==
    [][\A g \in Guilds :
         (said' # said /\ said'[2] = g /\ said'[3] \in {"refused", "shuffled"})
             => IF Len(queue[g]) < 2
                THEN queue'[g] = queue[g] /\ said'[3] = "refused"
                ELSE /\ Len(queue'[g]) = Len(queue[g])
                     /\ \A s \in Songs : Count(queue'[g], s) = Count(queue[g], s)]_vars

\* What clamping a level to the range of the volume command would give.
Clamp(level) == IF level < 0 THEN 0 ELSE IF level > MaxLevel THEN MaxLevel ELSE level

C16_ThreeTogglesReturn ==
    [][\A g \in Guilds :
         (said' # said /\ said'[2] = g /\ said'[3] \in {"loop", "loop_button"})
             => LoopAfterToggle(LoopAfterToggle(loop'[g])) = loop[g]]_vars

\* C16 (amended): the loop mode is binary, a toggle switches it to the other value, so
\* that 2 toggles give back the mode they started from, and a toggle leaves the queues
\* and the current tracks as they were.
C16_TwoTogglesReturn ==
    [][\A g \in Guilds :
         (said' # said /\ said'[2] = g /\ said'[3] \in {"loop", "loop_button"})
             => /\ loop'[g] # loop[g]
                /\ LoopAfterToggle(loop'[g]) = loop[g]
                /\ queue' = queue /\ current' = current]_vars

\* C16 witness: the third event of a run is a toggle that leaves the loop mode off, so
\* the event before it was the toggle that switched it on.
C16_ToggledTwice ==
    /\ said[1] = 3 /\ said[3] \in {"loop", "loop_button"}
    /\ said[2] \in Guilds /\ ~loop[said[2]]

\* C18: a pass of the periodic eviction loop that finds entries which are not downloading
\* in the cache runs to completion: when it is over the cache lock is free again, so that
\* the entries' removal has been carried out and a later pass can run.
C18_CleanupPassCompletes ==
    [][(PeriodicCleanupPass /\ \E s \in DOMAIN cache : Expirable(cache[s]))
          => ~cacheLock']_vars

\* C19: a request that stores a new id in a cache holding the maximum number of entries
\* gets its entry stored, and exactly the oldest entry is evicted for it (none, when the
\* oldest entry is downloading).
C19_FullInsertEvictsOldest ==
    [][\A r \in Requests :
         (/\ req[r].pc \in {"resolve", "adding"} /\ req'[r] # req[r]
          /\ ~cacheLock
          /\ NeedsDownload(cache, req[r].s) /\ CacheFull(order, req[r].s))
             => /\ req[r].s \in DOMAIN cache'
                /\ DOMAIN cache' =
                       IF cache[OldestId(order)].is_downloading
                       THEN DOMAIN cache \cup {req[r].s}
                       ELSE (DOMAIN cache \ {OldestId(order)}) \cup {req[r].s}]_vars

C21_DownloadingEnds ==
    [][\A s \in DOMAIN cache :
         (cache[s].is_downloading /\ inflight'[s] < inflight[s])
             => \/ s \notin DOMAIN cache'
                \/ /\ ~cache'[s].is_downloading
                   /\ cache'[s].file_path \in files']_vars

\* C22: a failed download of track X removes only X.  In the step in which the download
\* fails, and in the step in which a play_next that waited for that download resumes,
\* the other entries of every queue keep their order and the current tracks stay.
C22_FailureRemovesOnlyX ==
    [][/\ \A s \in DOMAIN cache :
            (/\ cache[s].future = "running" /\ inflight'[s] < inflight[s]
             /\ (s \notin DOMAIN cache' \/ cache'[s].future = "exc"))
                => /\ current' = current
                   /\ \A g \in Guilds :
                        RemoveAll(queue'[g], {s}) = RemoveAll(queue[g], {s})
       /\ \A g \in Guilds :
            (pn[g].pc = "woken" /\ pn[g].res \in {"nofile", "exc"} /\ pn'[g] # pn[g])
                => /\ current'[g] = current[g]
                   /\ RemoveAll(queue'[g], {pn[g].song}) = RemoveAll(queue[g], {pn[g].song})]_vars

\* Guild b's queue or current track refers to song s.
Refers(b, s) == InSeq(s, queue[b]) \/ (current[b] # << >> /\ current[b][1] = s)

\* C23: a cache entry with an existing file that the queue or the current track of a
\* guild refers to keeps its file, as long as the entry is in the cache, whatever happens
\* to the player of another guild (the one whose directory holds the file).
C23_SharedFileSurvives ==
    [][\A s \in DOMAIN cache : \A b \in Guilds :
         (/\ cache[s].file_path \in files /\ cache[s].file_path[1] # b
          /\ Refers(b, s) /\ s \in DOMAIN cache')
             => cache[s].file_path \in files']_vars

\* C24: when the 30 s wait of a link handler or of play_next on a running download is
\* over, only that waiter gives up: the download task is still running afterwards and
\* nobody else that waits for it is disturbed.
C24_TimeoutKeepsDownload ==
    [][/\ \A r \in Requests :
            (/\ req[r].pc = "waiting" /\ req'[r].pc = "done"
             /\ req[r].s \in DOMAIN cache /\ cache[req[r].s].future = "running")
                => /\ cache'[req[r].s].future = "running"
                   /\ inflight'[req[r].s] = inflight[req[r].s]
                   /\ \A r2 \in Requests \ {r} : req'[r2] = req[r2]
       /\ \A g \in Guilds :
            (/\ pn[g].pc = "wait" /\ pn'[g].pc \notin {"wait", "woken"}
             /\ pn[g].song \in DOMAIN cache /\ cache[pn[g].song].future = "running")
                => /\ cache'[pn[g].song].future = "running"
                   /\ inflight'[pn[g].song] = inflight[pn[g].song]]_vars

\* C25: when the teardown of a guild's player is over (after a stop command or after the
\* voice channel has become empty), the guild has no registered player.
C25_TornDownUnregistered ==
    [][\A g \in Guilds :
         (cl[g] # IdleCl /\ cl'[g] = IdleCl) => ~registered'[g]]_vars

\* C26: whenever a registered player holds a voice connection and is not being torn
\* down, one of its occupancy watchers is running.
C26_WatcherWhileConnected ==
    \A g \in Guilds :
        (registered[g] /\ vc[g] # "none" /\ cl[g] = IdleCl)
            => (watch[g].check_task \/ watch[g].task)

\* C27: no background loop survives teardown: when a teardown of a player ends none
\* of its occupancy watchers is still scheduled; once the cog has been unloaded the
\* cache cleanup loop makes no further pass, and every registered player has been
\* cleaned up (no voice client, no watcher).
C27_NoLoopSurvives ==
    [][/\ \A g \in Guilds :
            (cl[g] # IdleCl /\ cl'[g] = IdleCl)
                => (~watch'[g].check_task /\ ~watch'[g].task)
       /\ unloaded => uptime' = uptime
       /\ unloaded' =>
            \A g \in Guilds :
                registered'[g]
                    => (vc'[g] = "none" /\ ~watch'[g].check_task /\ ~watch'[g].task)]_vars

\* C28: at any time at most one now-playing message exists in a guild's channel.
C28_OneNowPlayingMessage == \A g \in Guilds : shown[g].n <= 1

\* C29: after an unexpected voice disconnect the player makes at most 3 reconnection
\* attempts.
C29_AtMostThreeAttempts == \A g \in Guilds : attempts[g] <= MAX_RECONNECT

----------------------------------------------------------------------------
(* YTDLSource.download_song, one attempt at a time *)

\* `for attempt in range(MAX_RETRIES)`, line 445: the next pass of the loop, or the end
\* of the function when the range is used up.
NextAttempt(f) ==
    IF f.attempt + 1 < MAX_RETRIES
    THEN [f EXCEPT !.pc = "try", !.attempt = f.attempt + 1, !.started = f.started + 1]
    ELSE [f EXCEPT !.pc = "none"]

\* A variant of the except branches that never gives up.
AfterFailedAttemptRetrying(attempt) == "sleep"

\* The except branches, lines 502-512: DownloadError after the last attempt, otherwise a
\* second of sleep and the next pass.
AfterFailedAttempt(attempt) == IF attempt = MAX_RETRIES - 1 THEN "exc" ELSE "sleep"

\* What the raise of lines 504 and 510 leads to: the task of from_url ends with the
\* exception, _download_song (lines 1342-1346) takes the song out of the queue and of
\* the cache.  Neither looks into the music directory: cleanup_partial_downloads is
\* called by MusicPlayer.cleanup only (lines 1141, 1151).
PartsAfterFinalFailure(parts) == parts

\* create_task(download_song(...)), lines 542 and 1331: the first pass of the loop.
FetchStart(s) ==
    /\ fetch[s].pc = "idle"
    /\ fetch' = [fetch EXCEPT ![s] = [@ EXCEPT !.pc = "try", !.started = 1]]
    /\ UNCHANGED <<musicVars, poll, tts, modr>>

\* Lines 489-498: the file is there, the function returns its path.  yt-dlp has turned
\* what it had fetched so far into the file.
AttemptSucceeds(s) ==
    /\ fetch[s].pc = "try"
    /\ fetch' = [fetch EXCEPT ![s] = [@ EXCEPT !.pc = "ok", !.file = TRUE, !.parts = FALSE]]
    /\ UNCHANGED <<musicVars, poll, tts, modr>>

\* An attempt fails (yt-dlp raises, or no file is found, line 500) or runs into
\* asyncio.timeout(DOWNLOAD_TIMEOUT): it may leave a fragment behind.
AttemptFails(s) ==
    /\ fetch[s].pc = "try"
    /\ \E left \in BOOLEAN :
         LET to == AfterFailedAttempt(fetch[s].attempt)
             p == fetch[s].parts \/ left
         IN fetch' = [fetch EXCEPT ![s] =
                        [@ EXCEPT !.pc = to,
                                  !.parts = IF to = "exc" THEN PartsAfterFinalFailure(p) ELSE p]]
    /\ UNCHANGED <<musicVars, poll, tts, modr>>

\* asyncio.sleep(1) is over.
SleepEnds(s) ==
    /\ fetch[s].pc = "sleep"
    /\ fetch' = [fetch EXCEPT ![s] = NextAttempt(@)]
    /\ UNCHANGED <<musicVars, poll, tts, modr>>

\* asyncio.wait_for(download_future, timeout=30) of a waiting handler cancels the task
\* (lines 1488, 1708): CancelledError passes both except branches.
FetchCancelled(s) ==
    /\ fetch[s].pc \in {"try", "sleep"}
    /\ \E left \in BOOLEAN :
         fetch' = [fetch EXCEPT ![s] = [@ EXCEPT !.pc = "cancelled",
                                                 !.parts = @ \/ (left /\ fetch[s].pc = "try")]]
    /\ UNCHANGED <<musicVars, poll, tts, modr>>

NextFetch ==
    \/ \E s \in Songs : FetchStart(s)
    \/ \E s \in Songs : AttemptSucceeds(s)
    \/ \E s \in Songs : AttemptFails(s)
    \/ \E s \in Songs : SleepEnds(s)
    \/ \E s \in Songs : FetchCancelled(s)

SpecFetch == Init /\ [][NextFetch]_vars

\* C31: a download_song call makes at most MAX_RETRIES attempts; it ends with the path at
\* the first attempt that succeeds, goes on to another attempt after one that failed or
\* timed out, and raises DownloadError after the last one failed; once it has returned
\* or raised it makes no further attempt.
C31_AtMostThreeAttempts ==
    [][\A s \in Songs :
          LET f == fetch'[s] IN
          /\ f.started <= MAX_RETRIES
          /\ f.pc = "ok" => f.file
          /\ f.pc = "sleep" => f.started < MAX_RETRIES
          /\ f.pc = "exc" => f.started = MAX_RETRIES
          /\ f.pc # "none"
          /\ (fetch[s].pc = "try" /\ f.pc \notin {"try", "ok", "cancelled"})
                => f.pc = (IF fetch[s].started = MAX_RETRIES THEN "exc" ELSE "sleep")
          /\ (fetch[s].pc = "sleep" /\ f.pc \notin {"sleep", "cancelled"})
                => (f.pc = "try" /\ f.started = fetch[s].started + 1)
          /\ f.started \in {fetch[s].started, fetch[s].started + 1}
          /\ fetch[s].pc \in {"ok", "exc"} => f = fetch[s]]_vars

\* One download has raised after its third attempt while another one returned at its
\* second.
C31_RaisedAndRetried ==
    \E s, t \in Songs :
        /\ fetch[s].pc = "exc" /\ fetch[s].started = MAX_RETRIES
        /\ fetch[t].pc = "ok" /\ fetch[t].started = 2

\* C32: after the last attempt of a download has failed, no file named after the song
\* id is left in the music directory.
C32_NoFragmentAfterFailure ==
    \A s \in Songs : fetch[s].pc = "exc" => (~fetch[s].parts /\ ~fetch[s].file)

----------------------------------------------------------------------------
(* Commands and button presses of users who are not in the bot's voice channel *)

Elsewhere == UserVoice \ {"same"}

\* A button of the now-playing message pressed from elsewhere: _handle_interaction
\* (lines 821-823) returns when _validate_user says no.
ButtonElsewhere(g, where) ==
    /\ IssuedFrom(g, where) /\ registered[g]
    /\ embed[g] /\ vc[g] # "none"
    /\ ~ButtonAllowed(where)
    /\ UNCHANGED <<cacheVars, playerVars, lockVars, cbPending, req, running, humans, views,
                   asked, watch, cl>>
    /\ UNCHANGED <<cogVars, error_count, uptime, said, unloaded, attempts, hd, conns>>

\* Runs from the playing state in which the users of guild 1 go on asking for songs
\* and users outside of the bot's channel send commands and press buttons.
NextOutside ==
    \/ \E g \in Guilds, where \in Elsewhere : StopBy(g, where)
    \/ \E g \in Guilds, where \in Elsewhere : SkipBy(g, where)
    \/ \E g \in Guilds, where \in Elsewhere : ShuffleBy(g, where)
    \/ \E g \in Guilds, where \in Elsewhere : ToggleLoopBy(g, where)
    \/ \E g \in Guilds, level \in Levels, where \in Elsewhere : SetVolumeBy(g, level, where)
    \/ \E g \in Guilds, where \in Elsewhere : ButtonElsewhere(g, where)
    \/ \E g \in Guilds : SearchCommand(g)
    \/ \E r \in Requests, g \in Guilds, s \in Songs : StartSelect(r, g, s)
    \/ \E r \in Requests : ReqAddAcquire(r)
    \/ \E r \in Requests : ReqAddBody(r)
    \/ \E r \in Requests : ReqCheck(r)
    \/ \E s \in Songs : DownloadSucceeds(s)
    \/ \E g \in Guilds : TrackEnds(g)
    \/ \E g \in Guilds : CbStart(g)
    \/ \E g \in Guilds : PNBody(g)
    \/ \E g \in Guilds : PNTail(g)
    \/ \E g \in Guilds : CleanupDisconnect(g)
    \/ \E g \in Guilds : CleanupNoVoice(g)

SpecOutside == InitPlaying /\ [][NextOutside]_vars

\* What a control action can change of a guild's player.
PlayerState(g) == <<registered[g], queue[g], current[g], loop[g], volume[g], vc[g], cl[g]>>

\* C33: a control action of a user who is not in the bot's voice channel, by button or
\* by slash command, leaves the player as it was.
C33_OutsiderChangesNothing ==
    [][\A g \in Guilds :
          (invoker' # invoker /\ invoker'[2] = g) => PlayerState(g)' = PlayerState(g)]_vars

\* C34: when play_next starts a track with loop mode on and a current track present, the
\* track it starts is the current one again and the queue is what it was before.
C34_LoopRepeatsCurrent ==
    [][\A g \in Guilds :
          (pn[g].pc = "body" /\ pn'[g].pc = "tail" /\ loop[g] /\ current[g] # << >>)
              => (current'[g][1] = current[g][1] /\ queue'[g] = queue[g])]_vars

----------------------------------------------------------------------------
(* Skipping *)

\* Runs from the playing state in which every track is ended by a skip.
NextSkip ==
    \/ \E g \in Guilds : Skip(g)
    \/ \E g \in Guilds : ToggleLoop(g)
    \/ \E g \in Guilds : SearchCommand(g)
    \/ \E r \in Requests, g \in Guilds, s \in Songs : StartSelect(r, g, s)
    \/ \E r \in Requests : ReqAddAcquire(r)
    \/ \E r \in Requests : ReqAddBody(r)
    \/ \E r \in Requests : ReqCheck(r)
    \/ \E s \in Songs : DownloadSucceeds(s)
    \/ \E s \in Songs : DownloadFails(s)
    \/ \E g \in Guilds : LockGrant(g)
    \/ \E g \in Guilds : CbStart(g)
    \/ \E g \in Guilds : PNBody(g)
    \/ \E g \in Guilds : PNWoken(g)
    \/ \E g \in Guilds : PNTimeout(g)
    \/ \E g \in Guilds : PNTail(g)

SpecSkip == InitPlaying /\ [][NextSkip]_vars

\* C35: a skip stops the track and schedules one completion callback, as the end of a
\* track does; the play_next of that callback makes the head of the queue the current
\* track, or leaves the player idle without a current track when the queue is empty.
C35_SkipPlaysNext ==
    [][\A g \in Guilds :
          /\ (vc[g] = "playing" /\ vc'[g] # "playing")
                => /\ vc'[g] = "idle" /\ cbPending'[g] = cbPending[g] + 1
                   /\ current'[g] = current[g] /\ queue'[g] = queue[g]
          /\ (pn[g].owner = CbTask(g) /\ pn[g].pc \in {"body", "wait", "woken"}
              /\ pn'[g] # pn[g])
                => IF queue[g] = << >>
                   THEN current'[g] = << >> /\ vc'[g] = "idle" /\ pn'[g] = IdlePn
                   ELSE \/ pn'[g].pc \in {"wait", "woken"} /\ queue'[g] = queue[g]
                        \/ /\ pn'[g].pc = "tail" /\ vc'[g] = "playing"
                           /\ current'[g][1] = Head(queue[g])
                           /\ queue'[g] = Tail(queue[g])]_vars

----------------------------------------------------------------------------
(* Polls: src/cogs/poll_cog.py, src/utils/poll_manager.py *)

\* Button presses of one run.
MaxPress == 3

\* PollCog.create_poll, lines 433-523: the view is made (which starts check_timeout and
\* the first save), the message is sent, the data are saved, the poll is registered.
CreatePoll(multiple) ==
    /\ ~poll.created
    /\ poll' = [poll EXCEPT !.created = TRUE, !.allow_multiple_votes = multiple,
                            !.message = "open", !.file = TRUE, !.active = TRUE,
                            !.pc = [@ EXCEPT !["timeout_task"] = "sleep"]]
    /\ UNCHANGED <<musicVars, fetch, tts, modr>>

\* The end time of the poll comes.
PollDue ==
    /\ poll.created /\ ~poll.due
    /\ poll' = [poll EXCEPT !.due = TRUE]
    /\ UNCHANGED <<musicVars, fetch, tts, modr>>

\* `async with self.lock` left: the first waiter is woken and has the lock.
PollRelease(p) ==
    IF p.waiters = << >> THEN [p EXCEPT !.lock = "none"]
    ELSE [p EXCEPT !.lock = Head(p.waiters), !.waiters = Tail(p.waiters),
                   !.pc = [@ EXCEPT ![Head(p.waiters)] = "locked"]]

\* stop_timeout_task, lines 147-150, called by task t: a check_timeout task that sleeps
\* or waits for the lock ends with CancelledError; the one that is running this very
\* call gets the error at its next suspension.
AfterStopTimeoutTask(p, t) ==
    IF p.pc["timeout_task"] \in {"idle", "done", "cancelled"} THEN p
    ELSE IF t = "timeout_task" THEN [p EXCEPT !.must_cancel = TRUE]
    ELSE [p EXCEPT !.pc = [@ EXCEPT !["timeout_task"] = "cancelled"],
                   !.waiters = RemoveFirst(@, "timeout_task")]

\* force_close, lines 310-322: delete_poll and remove_poll do not suspend.
FinishClose(p, t) ==
    PollRelease([p EXCEPT !.file = FALSE, !.active = FALSE,
                          !.pc = [@ EXCEPT ![t] = "done"]])

\* force_close inside the lock, lines 271-294, up to the edit of the message.
ForceCloseBody(p, t) ==
    IF p.is_closed THEN PollRelease([p EXCEPT !.pc = [@ EXCEPT ![t] = "done"]])
    ELSE LET p1 == AfterStopTimeoutTask([p EXCEPT !.is_closed = TRUE, !.disabled = TRUE,
                                                  !.by = t], t)
         IN IF p1.message # "none" THEN [p1 EXCEPT !.pc = [@ EXCEPT ![t] = "edit"]]
            ELSE FinishClose(p1, t)

\* The button callback inside the lock, lines 176-198: a user votes once unless the poll
\* allows more; the vote is counted and save_poll_data awaited.
VoteBody(p, u) ==
    IF ~p.allow_multiple_votes /\ u \in p.voters
    THEN [p EXCEPT !.pc = [@ EXCEPT ![u] = "reply"]]
    ELSE [p EXCEPT !.votes = @ + 1, !.voters = @ \cup {u},
                   !.pc = [@ EXCEPT ![u] = "save"]]

PollBody(p, t) == IF t \in Voters THEN VoteBody(p, t) ELSE ForceCloseBody(p, t)

\* `async with self.lock`: a free lock nobody waits for is taken without suspension.
PollEnter(p, t) ==
    IF p.lock = "none" /\ p.waiters = << >> THEN PollBody([p EXCEPT !.lock = t], t)
    ELSE [p EXCEPT !.waiters = Append(@, t), !.pc = [@ EXCEPT ![t] = "waitlock"]]

\* A task that was woken with the lock goes on.
PollLocked(t) ==
    /\ poll.pc[t] = "locked"
    /\ poll' = PollBody(poll, t)
    /\ UNCHANGED <<musicVars, fetch, tts, modr>>

\* check_timeout, lines 152-165: the task wakes from its sleep of 5 s.
CheckTimeout ==
    /\ poll.pc["timeout_task"] = "sleep" /\ (poll.is_closed \/ poll.due)
    /\ poll' = IF poll.is_closed THEN [poll EXCEPT !.pc = [@ EXCEPT !["timeout_task"] = "done"]]
               ELSE PollEnter(poll, "timeout_task")
    /\ UNCHANGED <<musicVars, fetch, tts, modr>>

\* PollCog.cancel_poll, lines 530-541: the message is deleted, then force_close.
CancelPoll ==
    /\ poll.pc["cancel_poll"] = "idle" /\ poll.active
    /\ poll' = [poll EXCEPT !.message = "deleted", !.pc = [@ EXCEPT !["cancel_poll"] = "call"]]
    /\ UNCHANGED <<musicVars, fetch, tts, modr>>

CancelClose ==
    /\ poll.pc["cancel_poll"] = "call"
    /\ poll' = PollEnter(poll, "cancel_poll")
    /\ UNCHANGED <<musicVars, fetch, tts, modr>>

\* PollCog.cog_unload -> close_all_polls, lines 580-589.
CloseAllPolls ==
    /\ poll.pc["close_all_polls"] = "idle" /\ poll.active
    /\ poll' = PollEnter(poll, "close_all_polls")
    /\ UNCHANGED <<musicVars, fetch, tts, modr>>

\* force_close, lines 292-308: message.edit returns or raises.  In a task that has
\* cancelled itself the await raises CancelledError, which no except branch of
\* force_close catches: the request may or may not have gone out, and the rest of
\* force_close is not run.
ForceCloseEdit(t) ==
    /\ t \in Closers /\ poll.pc[t] = "edit"
    /\ \E ok \in BOOLEAN :
         LET p1 == [poll EXCEPT !.message = IF ok /\ @ = "open" THEN "closed" ELSE @]
         IN poll' = IF t = "timeout_task" /\ poll.must_cancel
                    THEN PollRelease([p1 EXCEPT !.pc = [@ EXCEPT ![t] = "cancelled"]])
                    ELSE FinishClose(p1, t)
    /\ UNCHANGED <<musicVars, fetch, tts, modr>>

\* A user presses a button of the poll message: button_callback, lines 168-176.
PressButton(u) ==
    /\ u \in Voters /\ poll.pc[u] = "idle" /\ poll.message = "open"
    /\ poll.presses < MaxPress
    /\ LET p1 == [poll EXCEPT !.presses = @ + 1]
       IN poll' = IF poll.is_closed THEN p1 ELSE PollEnter(p1, u)
    /\ UNCHANGED <<musicVars, fetch, tts, modr>>

\* save_poll_data (lines 118-141) has written the file; the callback goes on to edit
\* the message.
VoteSaved(u) ==
    /\ u \in Voters /\ poll.pc[u] = "save"
    /\ poll' = [poll EXCEPT !.file = TRUE, !.pc = [@ EXCEPT ![u] = "reply"]]
    /\ UNCHANGED <<musicVars, fetch, tts, modr>>

\* The answer to the interaction (lines 183-187, 200-211) is through: the lock is left.
VoteReplied(u) ==
    /\ u \in Voters /\ poll.pc[u] = "reply"
    /\ poll' = PollRelease([poll EXCEPT !.pc = [@ EXCEPT ![u] = "idle"]])
    /\ UNCHANGED <<musicVars, fetch, tts, modr>>

NextPoll ==
    \/ \E multiple \in BOOLEAN : CreatePoll(multiple)
    \/ PollDue
    \/ CheckTimeout
    \/ CancelPoll
    \/ CancelClose
    \/ CloseAllPolls
    \/ \E t \in PollTasks : PollLocked(t)
    \/ \E t \in Closers : ForceCloseEdit(t)
    \/ \E u \in Voters : PressButton(u)
    \/ \E u \in Voters : VoteSaved(u)
    \/ \E u \in Voters : VoteReplied(u)

SpecPoll == Init /\ [][NextPoll]_vars

\* force_close has run to its end or was broken off.
ForceCloseOver(p) == p.is_closed /\ p.lock \notin Closers

\* C36: when the timeout checker has closed a poll whose end time came, the poll is
\* marked closed, its buttons are disabled, its data file is deleted and it is out of
\* the active polls.  (The edit of the message may fail for reasons outside the
\* program and is left out of the statement.)
C36_TimeoutClosesCompletely ==
    (poll.by = "timeout_task" /\ ForceCloseOver(poll))
        => (poll.is_closed /\ poll.disabled /\ ~poll.file /\ ~poll.active)

\* C37: once force_close has closed a poll, no vote is counted and the data file is not
\* written again.
C37_NoVoteAfterClose ==
    [][ForceCloseOver(poll) => (poll'.votes = poll.votes /\ (poll'.file => poll.file))]_vars

----------------------------------------------------------------------------
(* Text to speech: src/cogs/tts_cog.py *)

\* Messages accepted in one run.
MaxMsg == 4

\* tts_on, lines 116-156: the voice client, a new queue, and the process_tts_queue task.
TtsOn ==
    /\ ~tts.on
    /\ tts' = [tts EXCEPT !.on = TRUE, !.queue = << >>]
    /\ UNCHANGED <<musicVars, fetch, poll, modr>>

\* on_message, lines 276-309, and tts_read, lines 250-271: the message is put into the
\* queue of the guild.
TtsAccept ==
    /\ tts.on /\ tts.n < MaxMsg
    /\ tts' = [tts EXCEPT !.n = @ + 1, !.queue = Append(@, tts.n + 1)]
    /\ UNCHANGED <<musicVars, fetch, poll, modr>>

\* tts_convert_and_play, lines 340-357, for message m with its file made: it is played
\* when the voice client plays nothing; when it plays, the function logs and returns.
AfterConvert(q, m) ==
    IF q.playing = 0
    THEN [q EXCEPT !.files = @ \cup {m}, !.playing = m, !.spoken = Append(@, m)]
    ELSE [q EXCEPT !.files = @ \cup {m}]

\* process_tts_queue, lines 359-367: one turn of the loop takes the next message and
\* calls tts_convert_and_play (314-357), which does not suspend: gTTS writes the file or
\* fails, and voice_client.play returns when playback has started.
ProcessTtsQueue ==
    /\ tts.on /\ tts.queue # << >>
    /\ \E converted \in BOOLEAN :
         LET m == Head(tts.queue)
             q == [tts EXCEPT !.queue = Tail(@)]
         IN tts' = IF converted THEN AfterConvert(q, m)
                   ELSE [q EXCEPT !.failed = @ \cup {m}]
    /\ UNCHANGED <<musicVars, fetch, poll, modr>>

\* after_playback, lines 341-345, and delete_file, 369-375: playback of a message ends
\* and its file is deleted.
PlaybackEnds ==
    /\ tts.playing # 0
    /\ tts' = [tts EXCEPT !.playing = 0, !.files = @ \ {tts.playing}]
    /\ UNCHANGED <<musicVars, fetch, poll, modr>>

\* cleanup_files, lines 89-108: once an hour every file of the directory is removed.
CleanupFiles ==
    /\ tts.files # {}
    /\ tts' = [tts EXCEPT !.files = {}]
    /\ UNCHANGED <<musicVars, fetch, poll, modr>>

NextTts ==
    \/ TtsOn
    \/ TtsAccept
    \/ ProcessTtsQueue
    \/ PlaybackEnds
    \/ CleanupFiles

SpecTts == Init /\ [][NextTts]_vars

\* C38: while TTS is on, every accepted message waits in the queue or has been given to
\* the voice client (unless gTTS failed on it), the messages are spoken in the order
\* they were queued, and the only temporary file is that of the message being played.
C38_EveryMessageSpoken ==
    /\ \A m \in 1..tts.n :
          \/ \E i \in 1..Len(tts.queue) : tts.queue[i] = m
          \/ \E i \in 1..Len(tts.spoken) : tts.spoken[i] = m
          \/ m \in tts.failed
    /\ \A i, j \in 1..Len(tts.spoken) : i < j => tts.spoken[i] < tts.spoken[j]
    /\ tts.files \subseteq {tts.playing}

----------------------------------------------------------------------------
(* Moderation: src/cogs/moderation_cog.py *)

\* The largest sum of warning values one message can earn.
MaxWarn == 2

\* load_data, lines 68-83, in state m: an existing file is read under data_lock.  For a
\* missing file load_data calls save_data (82) while it holds data_lock, and save_data
\* (85-89) waits for the same threading.Lock, which is not reentrant: the thread stops
\* there with the lock held and nothing written.
LoadData(m, filename) ==
    IF (filename = "config.json" /\ m.config) \/ (filename = "warnings.json" /\ m.warnings)
    THEN m
    ELSE [m EXCEPT !.locked = TRUE, !.hung = TRUE, !.missed = filename]

\* ensure_guild_data, lines 443-463, called for every guild by on_ready (274-279):
\* save_data writes the defaults of the files that are missing.
EnsureGuildData ==
    /\ ~modr.hung /\ (~modr.config \/ ~modr.warnings)
    /\ modr' = [modr EXCEPT !.config = TRUE, !.warnings = TRUE]
    /\ UNCHANGED <<musicVars, fetch, poll, tts>>

\* set_warnings, lines 100-128: the config is loaded, warnings are enabled, it is saved.
SetWarnings ==
    /\ ~modr.hung /\ ~modr.enabled
    /\ LET m == LoadData(modr, "config.json")
       IN modr' = IF m.hung THEN m ELSE [m EXCEPT !.enabled = TRUE]
    /\ UNCHANGED <<musicVars, fetch, poll, tts>>

\* add_filter, lines 207-218: words with their warning values enter filter_warnings.
AddFilter ==
    /\ ~modr.hung /\ ~modr.filtered
    /\ LET m == LoadData(modr, "config.json")
       IN modr' = IF m.hung THEN m ELSE [m EXCEPT !.filtered = TRUE]
    /\ UNCHANGED <<musicVars, fetch, poll, tts>>

\* on_message, lines 293-327, for message i of user u whose filtered words sum to n
\* warnings: config and warnings are loaded, the words detected, and the handler
\* suspends in message.delete().
ModMessage(i, u, n) ==
    /\ ~modr.hung /\ modr.h[i].pc = "idle"
    /\ LET m1 == LoadData(modr, "config.json")
           m2 == LoadData(m1, "warnings.json")
       IN modr' = IF m1.hung THEN m1
                  ELSE IF ~m1.enabled THEN [m1 EXCEPT !.h[i].pc = "done"]
                  ELSE IF m2.hung THEN m2
                  ELSE IF ~m2.filtered \/ n = 0 THEN [m2 EXCEPT !.h[i].pc = "done"]
                  ELSE [m2 EXCEPT !.h[i] = [pc |-> "await", author |-> u,
                                            total_warns |-> n, snap |-> m2.stored]]
    /\ UNCHANGED <<musicVars, fetch, poll, tts>>

\* The count on_message writes for the author, lines 343-346.
CurrentWarnings(hd_) == hd_.snap[hd_.author] + hd_.total_warns

\* on_message, lines 327-347: the deletions and the sleep of 3 s are over; unless they
\* raised an unexpected exception (338-340) the count is raised in the map that was
\* loaded at the start, and the map is saved.
ModMessageHandled(i) ==
    /\ ~modr.hung /\ modr.h[i].pc = "await"
    /\ \E raised \in BOOLEAN :
         LET hd_ == modr.h[i]
         IN modr' = IF raised THEN [modr EXCEPT !.h[i].pc = "done"]
                    ELSE [modr EXCEPT !.h[i].pc = "done",
                                      !.stored = [hd_.snap EXCEPT ![hd_.author] = CurrentWarnings(hd_)],
                                      !.owed[hd_.author] = @ + hd_.total_warns]
    /\ UNCHANGED <<musicVars, fetch, poll, tts>>

NextMod ==
    \/ EnsureGuildData
    \/ SetWarnings
    \/ AddFilter
    \/ \E i \in ModMsgs, u \in ModUsers, n \in 0..MaxWarn : ModMessage(i, u, n)
    \/ \E i \in ModMsgs : ModMessageHandled(i)

SpecMod == Init /\ [][NextMod]_vars

\* C39: the stored warning count of every user is the sum of the warnings that the
\* handled messages of that user earned: no increment is lost.
C39_NoLostWarning ==
    \A u \in ModUsers : modr.stored[u] = modr.owed[u]

\* C40: after a load_data that found no file, the file exists and data_lock is free.
C40_LoadDataReturns ==
    modr.missed # "none" =>
        /\ ~modr.locked
        /\ (modr.missed = "config.json" => modr.config)
        /\ (modr.missed = "warnings.json" => modr.warnings)

====
